---- MODULE Spec2Model ----
(***************************************************************************)
(* MotionAI: the real-time pose-evaluation loop of the TrainingView        *)
(* component, its geometry helpers and the session lifecycle.              *)
(*                                                                         *)
(* Two historical variants of the view and of the vision service live in   *)
(* the repository; both are modelled and selected by the build variables   *)
(* `view` and `vision`:                                                    *)
(*   view   = "ref"   src/components/ReportView.tsx:335-952 (live counters  *)
(*                    held in refs, speak() returns whether it spoke)      *)
(*   view   = "state" src/components/TrainingView.tsx (counters in React    *)
(*                    state, read through render closures)                 *)
(*   vision = "v1"    src/services/visionService.ts:1-148                   *)
(*   vision = "v2"    src/services/visionService.ts:150-205                 *)
(*                                                                         *)
(* Units.  Coordinates are normalized frame coordinates in hundredths      *)
(* (0.15 is 15).  Angles are millidegrees (70 degrees is 70000).  Wall     *)
(* clock durations are tenths of a second (3000 ms is 30).  Scores are     *)
(* half points (100 points is 200), so that both penalties (2 points in    *)
(* the ref view, 0.5 points in the state view) are integers.               *)
(*                                                                         *)
(* Clocks.  The code stores instants (Date.now()) and only ever compares   *)
(* `Date.now() - instant` with a constant.  The model stores that          *)
(* difference, the age of the instant, saturated at the largest value     *)
(* that still decides every comparison made with it.  An instant that was  *)
(* never set (the ref's initial 0) has the saturated age.                  *)
(***************************************************************************)
EXTENDS Integers, Sequences, FiniteSets, TLC

VARIABLES
    view,             \* which TrainingView variant is built
    vision,           \* which visionService variant is built
    exercise,         \* props: exercise.id
    durationSec,      \* props: exercise.durationSec
    status,           \* React state: status (after the queued updates)
    timeLeft,         \* React state: timeLeft (after the queued updates)
    score,            \* React state: score
    corrections,      \* React state: corrections
    rendered,         \* the state values of the last committed render
    statusRef,        \* statusRef.current
    scoreRef,         \* scoreRef.current
    correctionsRef,   \* correctionsRef.current
    feedbackLog,      \* feedbackLog.current.length
    lastSpokenTime,   \* age of lastSpokenTime.current
    wHoldStart,       \* age of wHoldStart.current, or Null
    lastWSuccess,     \* age of lastWSuccess.current
    bobathHoldStart,  \* age of bobathHoldStart.current, or Null
    lastBobathSuccess,\* age of lastBobathSuccess.current
    lastWristPos,     \* lastWristPos.current (present = FALSE for null)
    motionAccumulator,\* motionAccumulator.current, saturated at MOTION_MIN
    lastMotionCheckTime, \* age of lastMotionCheckTime.current
    timerOn,          \* the 1 s interval of the countdown effect is registered
    effectsPending,   \* the passive effects of the last commit have not run yet
    completed,        \* the sessions handed to onComplete, in call order
    spoken,           \* the texts sent to speechSynthesis in the last step
    frame,            \* what the animation frame of the last step did
    call,             \* the service function called on its own and what it returned,
                      \* or the module state of the vision service
    correctionCap     \* how many spoken corrections the run explores

vars == <<view, vision, exercise, durationSec, status, timeLeft, score, corrections,
          rendered, statusRef, scoreRef, correctionsRef, feedbackLog,
          lastSpokenTime, wHoldStart, lastWSuccess, bobathHoldStart,
          lastBobathSuccess, lastWristPos, motionAccumulator, lastMotionCheckTime,
          timerOn, effectsPending, completed, spoken, frame, call, correctionCap>>

(***************************************************************************)
(* Bounds of the model                                                     *)
(***************************************************************************)
\* largest exercise.durationSec prop explored (seconds)
MaxDuration == 1
\* largest coordinate of the points calculateAngle is given on its own
MaxCoordinate == 3
\* calls of initializeVision explored, overlapping or not
MaxCalls == 3
\* spoken corrections explored per session in the general specification
MaxCorrections == 2
\* spoken corrections explored in the score-floor specification
FloorCorrections == 52
\* feedbackLog entries other than corrections that animation frames may add
MaxAnnouncements == 3
\* exercise.durationSec of the wrist rotation sessions explored (seconds)
RotationSeconds == 16

(***************************************************************************)
(* Program constants                                                       *)
(***************************************************************************)
\* speak(): general throttle, 3000 ms
THROTTLE == 30
\* speak(): countdown throttle, 900 ms
COUNTDOWN_THROTTLE == 9
\* W extension: required hold, 10 s
W_HOLD == 100
\* W extension: minimum gap between success announcements, 8000 ms
W_SUCCESS_GAP == 80
\* Bobath clasp: required hold, 5 s
BOBATH_HOLD == 50
\* Bobath clasp: minimum gap between success announcements, 5000 ms
BOBATH_SUCCESS_GAP == 50
\* wrist rotation: motion check window, 1000 ms
MOTION_WINDOW == 10
\* wrist rotation: minimum accumulated motion per window, 0.05
MOTION_MIN == 5
\* wrist rotation: instruction period, 15 s
DIRECTION_PERIOD == 15
\* checkTorsoAlignment: aligned iff deviation < 0.1
TORSO_TOLERANCE == 10
\* processLandmarks: torso error needs torsoError > 0.15 as well
TORSO_ERROR_MIN == 15
\* TOUCH_EAR: shoulders level iff |dy| <= 0.04
SHRUG_MAX == 4
\* wrist proximity threshold 0.15 (clasp, touch)
NEAR == 15
\* EXERCISES[SHOULDER_ABDUCTION].durationSec, 60 s
ABDUCTION_SECONDS == 60
\* score at construction, 100 points
INITIAL_SCORE == 200
\* ref view: 2 points per spoken correction
REF_PENALTY == 4
\* state view: 0.5 points per error frame
STATE_PENALTY == 1


(***************************************************************************)
(* Landmarks                                                               *)
(***************************************************************************)
\* POSE_LANDMARKS indices used by the evaluator
NOSE == 0
LEFT_EAR == 7
RIGHT_EAR == 8
LEFT_SHOULDER == 11
RIGHT_SHOULDER == 12
LEFT_ELBOW == 13
RIGHT_ELBOW == 14
LEFT_WRIST == 15
RIGHT_WRIST == 16
LEFT_HIP == 23
RIGHT_HIP == 24

Joints == {NOSE, LEFT_EAR, RIGHT_EAR, LEFT_SHOULDER, RIGHT_SHOULDER, LEFT_ELBOW,
           RIGHT_ELBOW, LEFT_WRIST, RIGHT_WRIST, LEFT_HIP, RIGHT_HIP}

\* a landmark: present is FALSE for an absent array element (undefined)
Pt(px, py) == [present |-> TRUE, x |-> px, y |-> py]
Undefined == [present |-> FALSE, x |-> 0, y |-> 0]

Abs(n) == IF n < 0 THEN -n ELSE n

RECURSIVE GCD(_, _)
GCD(a, b) == IF b = 0 THEN a ELSE GCD(b, a % b)

(***************************************************************************)
(* Math.atan2 in millidegrees.  AtanTable holds atan(dy/dx) for the        *)
(* reduced first-quadrant directions with both components at most 6,       *)
(* rounded to the millidegree; the other quadrants follow by reflection,   *)
(* and atan2(0, 0) = 0.                                                    *)
(***************************************************************************)
AtanTable ==
    [d \in {<<0, 1>>, <<1, 0>>, <<1, 1>>, <<1, 2>>, <<1, 3>>, <<1, 4>>, <<1, 5>>,
            <<1, 6>>, <<2, 1>>, <<2, 3>>, <<2, 5>>, <<3, 1>>, <<3, 2>>, <<3, 4>>,
            <<3, 5>>, <<4, 1>>, <<4, 3>>, <<4, 5>>, <<5, 1>>, <<5, 2>>, <<5, 3>>,
            <<5, 4>>, <<5, 6>>, <<6, 1>>, <<6, 5>>} |->
        CASE d = <<0, 1>> -> 0
          [] d = <<1, 0>> -> 90000
          [] d = <<1, 1>> -> 45000
          [] d = <<1, 2>> -> 26565
          [] d = <<1, 3>> -> 18435
          [] d = <<1, 4>> -> 14036
          [] d = <<1, 5>> -> 11310
          [] d = <<1, 6>> -> 9462
          [] d = <<2, 1>> -> 63435
          [] d = <<2, 3>> -> 33690
          [] d = <<2, 5>> -> 21801
          [] d = <<3, 1>> -> 71565
          [] d = <<3, 2>> -> 56310
          [] d = <<3, 4>> -> 36870
          [] d = <<3, 5>> -> 30964
          [] d = <<4, 1>> -> 75964
          [] d = <<4, 3>> -> 53130
          [] d = <<4, 5>> -> 38660
          [] d = <<5, 1>> -> 78690
          [] d = <<5, 2>> -> 68199
          [] d = <<5, 3>> -> 59036
          [] d = <<5, 4>> -> 51340
          [] d = <<5, 6>> -> 39806
          [] d = <<6, 1>> -> 80538
          [] d = <<6, 5>> -> 50194]

Atan2(dy, dx) ==
    IF dx = 0 /\ dy = 0 THEN 0
    ELSE LET g == GCD(Abs(dy), Abs(dx))
             a == AtanTable[<<Abs(dy) \div g, Abs(dx) \div g>>]
         IN  IF dx >= 0
             THEN (IF dy >= 0 THEN a ELSE -a)
             ELSE (IF dy >= 0 THEN 180000 - a ELSE a - 180000)

(***************************************************************************)
(* visionService.calculateAngle.  The result is a record: threw is TRUE    *)
(* when the call raises a TypeError (reading .y of undefined).             *)
(***************************************************************************)
\* the angle without the fold at 180 degrees (a variant that C27 rules out)
AngleOfUnfolded(a, b, c) ==
    Abs(Atan2(c.y - b.y, c.x - b.x) - Atan2(a.y - b.y, a.x - b.x))

\* the angle from the signed difference of the bearings (a variant that C28
\* rules out)
AngleOfSigned(a, b, c) ==
    LET raw == Atan2(c.y - b.y, c.x - b.x) - Atan2(a.y - b.y, a.x - b.x)
    IN  IF raw > 180000 THEN 360000 - raw
        ELSE IF raw < -180000 THEN 360000 + raw
        ELSE raw

AngleOf(a, b, c) ==
    LET raw == Abs(Atan2(c.y - b.y, c.x - b.x) - Atan2(a.y - b.y, a.x - b.x))
    IN  IF raw > 180000 THEN 360000 - raw ELSE raw

calculateAngle(a, b, c) ==
    IF a.present /\ b.present /\ c.present
    THEN [threw |-> FALSE, angle |-> AngleOf(a, b, c)]
    ELSE IF vision = "v2"
         THEN [threw |-> FALSE, angle |-> 0]
         ELSE [threw |-> TRUE, angle |-> 0]

(***************************************************************************)
(* visionService.checkTorsoAlignment.  error is the deviation doubled in   *)
(* v1 (the midpoints are not divided by 2, so that it stays an integer)    *)
(* and scale tells by how much: deviation = error / scale.                 *)
(***************************************************************************)
checkTorsoAlignment(landmarks) ==
    LET leftShoulder == landmarks[LEFT_SHOULDER]
        rightShoulder == landmarks[RIGHT_SHOULDER]
        leftHip == landmarks[LEFT_HIP]
        rightHip == landmarks[RIGHT_HIP]
    IN  IF vision = "v1"
        THEN IF ~leftShoulder.present \/ ~rightShoulder.present
                \/ ~leftHip.present \/ ~rightHip.present
             THEN [threw |-> FALSE, aligned |-> TRUE, error |-> 0, scale |-> 2]
             ELSE LET deviation2 == Abs((leftShoulder.x + rightShoulder.x)
                                        - (leftHip.x + rightHip.x))
                  IN  [threw |-> FALSE, aligned |-> deviation2 < 2 * TORSO_TOLERANCE,
                       error |-> deviation2, scale |-> 2]
        ELSE IF ~leftShoulder.present \/ ~leftHip.present
             THEN [threw |-> TRUE, aligned |-> TRUE, error |-> 0, scale |-> 1]
             ELSE LET deviation == Abs(leftShoulder.x - leftHip.x)
                  IN  [threw |-> FALSE, aligned |-> deviation < TORSO_TOLERANCE,
                       error |-> deviation, scale |-> 1]

\* squared Euclidean distance; Math.hypot(dx, dy) < r iff Dist2 < r * r
Dist2(p, q) == (p.x - q.x) * (p.x - q.x) + (p.y - q.y) * (p.y - q.y)

(***************************************************************************)
(* Detection results fed to the animation loop.  A pose is built from the  *)
(* lean of the shoulders over the hips, the raise of the left shoulder,    *)
(* and the offsets shoulder -> elbow and elbow -> wrist of each arm (the   *)
(* x offset counted outwards from the body).                               *)
(***************************************************************************)
Off(dx, dy) == [dx |-> dx, dy |-> dy]

Pose(s, shrug, el, wl, er, wr) ==
    [j \in Joints |->
        CASE j = NOSE -> Pt(50 + s, 20)
          [] j = LEFT_EAR -> Pt(55 + s, 18)
          [] j = RIGHT_EAR -> Pt(45 + s, 18)
          [] j = LEFT_SHOULDER -> Pt(60 + s, 30 - shrug)
          [] j = RIGHT_SHOULDER -> Pt(40 + s, 30)
          [] j = LEFT_ELBOW -> Pt(60 + s + el.dx, 30 - shrug + el.dy)
          [] j = RIGHT_ELBOW -> Pt(40 + s - er.dx, 30 + er.dy)
          [] j = LEFT_WRIST -> Pt(60 + s + el.dx + wl.dx, 30 - shrug + el.dy + wl.dy)
          [] j = RIGHT_WRIST -> Pt(40 + s - er.dx - wr.dx, 30 + er.dy + wr.dy)
          [] j = LEFT_HIP -> Pt(60, 60)
          [] j = RIGHT_HIP -> Pt(40, 60)]

\* the same pose with landmark j absent from the array
Without(lm, j) == [k \in Joints |-> IF k = j THEN Undefined ELSE lm[k]]

\* leans explored: 0.10, 0.12 and 0.15 are not above 0.15; 0.18 is
Leans == {0, 10, 12, 15, 18}

Symmetric(s, shrug, e, w) == Pose(s, shrug, e, w, e, w)

\* hip-shoulder-elbow angle at lean 0: 45, 90 and 135 degrees; upright, the
\* angles next to the two thresholds as well: 68.199, 71.565, 111.801 and
\* 116.565 degrees
AbductionPoses ==
    {Symmetric(s, 0, e, Off(10, 10)) :
        s \in Leans, e \in {Off(10, 10), Off(10, 0), Off(10, -10)}}
    \cup {Symmetric(0, 0, e, Off(10, 10)) :
            e \in {Off(10, 4), Off(9, 3), Off(10, -4), Off(10, -5)}}

\* elbow angle with the upper arm Off(10, 10): 180, 135 and 0 degrees
FlexionPoses ==
    {Symmetric(s, 0, Off(10, 10), w) :
        s \in {0, 18}, w \in {Off(10, 10), Off(10, 0), Off(-10, -10)}}

\* both arms right; left elbow at 90 degrees; right arm at 135 degrees; leaning
WExtensionPoses ==
    {Symmetric(0, 0, Off(10, 10), Off(10, 0)),
     Pose(0, 0, Off(10, 10), Off(10, -10), Off(10, 10), Off(10, 0)),
     Pose(0, 0, Off(10, 10), Off(10, 0), Off(10, -10), Off(10, 0)),
     Symmetric(18, 0, Off(10, 10), Off(10, 0)),
     Symmetric(18, 0, Off(10, 10), Off(10, -10))}

\* forearm Off(-15, -20) brings each wrist 0.02 from the opposite ear
TouchEarPoses ==
    {Symmetric(s, shrug, Off(0, 10), w) :
        s \in {0, 18}, shrug \in {4, 5}, w \in {Off(-15, -20), Off(0, 10)}}

\* clasped, straight and overhead; apart; elbows bent; clasped below the nose
BobathPoses ==
    {Symmetric(s, 0, a[1], a[2]) :
        s \in {0, 18},
        a \in {<<Off(-3, -15), Off(-3, -15)>>, <<Off(0, -15), Off(0, -15)>>,
               <<Off(5, -5), Off(-10, -10)>>, <<Off(-3, 15), Off(-3, 15)>>}}

\* wrists together at chest height, the left one at three x positions;
\* wrists apart; wrists together above the nose; leaning
WristPoses ==
    {Pose(0, 0, Off(0, 10), Off(wx, 5), Off(0, 10), Off(-6, 5)) : wx \in {-8, -6, -3}}
    \cup {Symmetric(0, 0, Off(0, 10), Off(0, 5)),
          Symmetric(0, 0, Off(-3, -15), Off(-3, -15)),
          Symmetric(18, 0, Off(0, 10), Off(-6, 5))}

PosesOf(ex) ==
    CASE ex = "SHOULDER_ABDUCTION" -> AbductionPoses
      [] ex = "ELBOW_FLEXION" -> FlexionPoses
      [] ex = "STANDING_W_EXTENSION" -> WExtensionPoses
      [] ex = "TOUCH_EAR" -> TouchEarPoses
      [] ex = "BOBATH_HAND_CLASP" -> BobathPoses
      [] ex = "WRIST_ROTATION" -> WristPoses
      [] OTHER -> AbductionPoses

\* a correct pose of the exercise with one landmark absent
BasePose(ex) ==
    CASE ex = "SHOULDER_ABDUCTION" -> Symmetric(0, 0, Off(10, 0), Off(10, 10))
      [] ex = "ELBOW_FLEXION" -> Symmetric(0, 0, Off(10, 10), Off(10, 0))
      [] ex = "STANDING_W_EXTENSION" -> Symmetric(0, 0, Off(10, 10), Off(10, 0))
      [] ex = "TOUCH_EAR" -> Symmetric(0, 0, Off(0, 10), Off(-15, -20))
      [] ex = "BOBATH_HAND_CLASP" -> Symmetric(0, 0, Off(-3, -15), Off(-3, -15))
      [] ex = "WRIST_ROTATION" ->
            Pose(0, 0, Off(0, 10), Off(-8, 5), Off(0, 10), Off(-6, 5))
      [] OTHER -> Symmetric(0, 0, Off(10, 0), Off(10, 10))

PartialPoses(ex) == {Without(BasePose(ex), j) : j \in Joints}

\* PoseLandmarkerResult | null: kind is "null" for no result, "empty" for a
\* result with landmarks = [] and "pose" for a result with landmarks[0] = pose
NullResult == [kind |-> "null", pose |-> [j \in Joints |-> Undefined]]
EmptyResult == [kind |-> "empty", pose |-> [j \in Joints |-> Undefined]]
Detected(lm) == [kind |-> "pose", pose |-> lm]

Results(ex) ==
    {NullResult, EmptyResult}
    \cup {Detected(lm) : lm \in PosesOf(ex) \cup PartialPoses(ex)}

(***************************************************************************)
(* Feedback texts.  Each text of the source is named; the two substring    *)
(* tests the code applies to a text are the operators below.               *)
(***************************************************************************)
ErrorTexts ==
    {"TORSO",            \* "身体歪了，保持背部挺直！" / "收紧核心，身体歪了！"
     "RAISE_ARM",        \* "手臂抬高一点！"
     "LOWER_ARM",        \* "太高了，放低一点！"
     "ARM_STRAIGHT",     \* "手臂完全伸直！准备弯曲"
     "BEND_TOO_SMALL",   \* "弯曲角度太小！"
     "ELBOW_ANGLE",      \* "屈肘角度不对，保持约120度"
     "ARM_SPREAD",       \* "调整双臂打开幅度 (60度)"
     "NO_SHRUG",         \* "不要耸肩，沉肩坠肘"
     "CLASP_HANDS",      \* "双手十指相扣，握紧！"
     "STRAIGHTEN",       \* "用力伸直手肘！"
     "RAISE_OVERHEAD",   \* "举高！把手举过头顶"
     "PALMS_TOGETHER",   \* "双手合掌，指尖相对！"
     "CHEST_LEVEL"}      \* "把手放在胸前位置"

\* text.includes("秒"): the two hold countdowns and the spoken seconds
IsCountdown(text) == text \in {"W_COUNTDOWN", "BOBATH_COUNTDOWN", "SECONDS_LEFT"}

\* localFeedback.includes("保持住")
HasHoldPhrase(text) == text \in {"BOBATH_COUNTDOWN", "TOUCH_GOOD"}

\* localFeedback.split("...")[1] || "保持"
SpokenPart(text) == IF text = "BOBATH_COUNTDOWN" THEN "SECONDS_LEFT" ELSE "KEEP"

Null == -1

Min(a, b) == IF a < b THEN a ELSE b
Max(a, b) == IF a > b THEN a ELSE b

\* Date.now() - instant > ms, for an instant an earlier animation frame
\* recorded.  Ages count whole tenths of a second and animation frames take
\* none of them, while the frame that compares runs after the one that
\* recorded: an age that counts exactly ms is an age above ms.
Exceeds(age, ms) == age >= ms

(***************************************************************************)
(* speak().  sp is the speech state [last, log, out]: the age of           *)
(* lastSpokenTime, the length of feedbackLog and the texts handed to       *)
(* speechSynthesis in this step.  The result adds ok, the return value.    *)
(***************************************************************************)
Speech == [last |-> lastSpokenTime, log |-> feedbackLog, out |-> <<>>]

Uttered(sp, text, logged) ==
    [ok |-> TRUE, last |-> 0,
     log |-> IF logged THEN sp.log + 1 ELSE sp.log,
     out |-> Append(sp.out, text)]

Silent(sp) == [ok |-> FALSE, last |-> sp.last, log |-> sp.log, out |-> sp.out]

\* speak() without the general throttle (a variant that C2 rules out)
speakRefUnthrottled(sp, text, force) ==
    IF IsCountdown(text) /\ sp.last < COUNTDOWN_THROTTLE THEN Silent(sp)
    ELSE Uttered(sp, text, ~IsCountdown(text))

\* speak() uttering a text without pushing it to feedbackLog (a variant that
\* C32 rules out)
speakRefUnlogged(sp, text, force) ==
    IF ~force /\ ~IsCountdown(text) /\ sp.last < THROTTLE THEN Silent(sp)
    ELSE IF IsCountdown(text) /\ sp.last < COUNTDOWN_THROTTLE THEN Silent(sp)
    ELSE Uttered(sp, text, FALSE)

speakRef(sp, text, force) ==
    IF ~force /\ ~IsCountdown(text) /\ sp.last < THROTTLE THEN Silent(sp)
    ELSE IF IsCountdown(text) /\ sp.last < COUNTDOWN_THROTTLE THEN Silent(sp)
    ELSE Uttered(sp, text, ~IsCountdown(text))

speakState(sp, text, force) ==
    IF sp.last < THROTTLE THEN Silent(sp) ELSE Uttered(sp, text, TRUE)

speak(sp, text, force) ==
    IF view = "ref" THEN speakRef(sp, text, force) ELSE speakState(sp, text, force)

(***************************************************************************)
(* The render closure the animation loop runs in.  startSystem registers   *)
(* loop once, from the effect of the first render, and loop re-registers   *)
(* itself; the processLandmarks it calls is the one of the first render,   *)
(* whose state constants are the initial ones.                             *)
(***************************************************************************)
LoopClosure ==
    [status |-> "IDLE", timeLeft |-> durationSec, score |-> INITIAL_SCORE,
     corrections |-> 0]

(***************************************************************************)
(* The verdict of one frame: threw (an uncaught TypeError left             *)
(* processLandmarks), isError and the feedback text, together with the     *)
(* refs the exercise rule wrote and the speech state after its speak calls.*)
(***************************************************************************)
Verdict(sp, isError, text) ==
    [threw |-> FALSE, isError |-> isError, text |-> text,
     wHold |-> wHoldStart, wSucc |-> lastWSuccess,
     bHold |-> bobathHoldStart, bSucc |-> lastBobathSuccess,
     wristPos |-> lastWristPos, motion |-> motionAccumulator,
     motionAge |-> lastMotionCheckTime, sp |-> sp]

Thrown(sp) == [Verdict(sp, FALSE, "STANDARD") EXCEPT !.threw = TRUE]

\* floor of Math.hypot(dx, dy); exact when the offset is along one axis
Hypot(dx, dy) ==
    LET n == dx * dx + dy * dy
    IN  CHOOSE r \in 0..150 : r * r <= n /\ n < (r + 1) * (r + 1)

\* the abduction rule with the correct range narrowed to [75, 110] degrees
\* (a variant that C17 rules out)
ShoulderAbductionNarrow(lm, sp) ==
    LET a == calculateAngle(lm[LEFT_HIP], lm[LEFT_SHOULDER], lm[LEFT_ELBOW])
    IN  IF a.threw THEN Thrown(sp)
        ELSE IF a.angle < 75000 THEN Verdict(sp, TRUE, "RAISE_ARM")
        ELSE IF a.angle > 110000 THEN Verdict(sp, TRUE, "LOWER_ARM")
        ELSE Verdict(sp, FALSE, "STANDARD")

ShoulderAbduction(lm, sp) ==
    LET a == calculateAngle(lm[LEFT_HIP], lm[LEFT_SHOULDER], lm[LEFT_ELBOW])
    IN  IF a.threw THEN Thrown(sp)
        ELSE IF a.angle < 70000 THEN Verdict(sp, TRUE, "RAISE_ARM")
        ELSE IF a.angle > 115000 THEN Verdict(sp, TRUE, "LOWER_ARM")
        ELSE Verdict(sp, FALSE, "STANDARD")

ElbowFlexion(lm, sp) ==
    LET a == calculateAngle(lm[LEFT_SHOULDER], lm[LEFT_ELBOW], lm[LEFT_WRIST])
    IN  IF a.threw THEN Thrown(sp)
        ELSE IF a.angle > 170000 THEN Verdict(sp, TRUE, "ARM_STRAIGHT")
        ELSE IF a.angle < 40000 THEN Verdict(sp, TRUE, "BEND_TOO_SMALL")
        ELSE Verdict(sp, FALSE, "STANDARD")

\* the W rule restarting the hold timer on every correct frame of a running
\* hold (a variant that C30 rules out)
StandingWExtensionRestarts(lm, sp) ==
    LET lElbow == calculateAngle(lm[LEFT_SHOULDER], lm[LEFT_ELBOW], lm[LEFT_WRIST])
        rElbow == calculateAngle(lm[RIGHT_SHOULDER], lm[RIGHT_ELBOW], lm[RIGHT_WRIST])
        lArm == calculateAngle(lm[LEFT_HIP], lm[LEFT_SHOULDER], lm[LEFT_ELBOW])
        rArm == calculateAngle(lm[RIGHT_HIP], lm[RIGHT_SHOULDER], lm[RIGHT_ELBOW])
        elbowsGood == /\ lElbow.angle > 100000 /\ lElbow.angle < 150000
                      /\ rElbow.angle > 100000 /\ rElbow.angle < 150000
        armsGood == /\ lArm.angle > 40000 /\ lArm.angle < 85000
                    /\ rArm.angle > 40000 /\ rArm.angle < 85000
        held == IF wHoldStart = Null \/ wHoldStart < W_HOLD THEN 0 ELSE wHoldStart
    IN  IF lElbow.threw \/ rElbow.threw \/ lArm.threw \/ rArm.threw THEN Thrown(sp)
        ELSE IF ~elbowsGood
        THEN [Verdict(sp, TRUE, "ELBOW_ANGLE") EXCEPT !.wHold = Null]
        ELSE IF ~armsGood
        THEN [Verdict(sp, TRUE, "ARM_SPREAD") EXCEPT !.wHold = Null]
        ELSE IF held < W_HOLD
        THEN [Verdict(sp, FALSE, "W_COUNTDOWN") EXCEPT !.wHold = held]
        ELSE IF Exceeds(lastWSuccess, W_SUCCESS_GAP)
        THEN [Verdict(speak(sp, "SET_DONE", TRUE), FALSE, "W_DONE")
                EXCEPT !.wHold = Null, !.wSucc = 0]
        ELSE [Verdict(sp, FALSE, "W_DONE") EXCEPT !.wHold = held]

StandingWExtension(lm, sp) ==
    LET lElbow == calculateAngle(lm[LEFT_SHOULDER], lm[LEFT_ELBOW], lm[LEFT_WRIST])
        rElbow == calculateAngle(lm[RIGHT_SHOULDER], lm[RIGHT_ELBOW], lm[RIGHT_WRIST])
        lArm == calculateAngle(lm[LEFT_HIP], lm[LEFT_SHOULDER], lm[LEFT_ELBOW])
        rArm == calculateAngle(lm[RIGHT_HIP], lm[RIGHT_SHOULDER], lm[RIGHT_ELBOW])
        elbowsGood == /\ lElbow.angle > 100000 /\ lElbow.angle < 150000
                      /\ rElbow.angle > 100000 /\ rElbow.angle < 150000
        armsGood == /\ lArm.angle > 40000 /\ lArm.angle < 85000
                    /\ rArm.angle > 40000 /\ rArm.angle < 85000
        held == IF wHoldStart = Null THEN 0 ELSE wHoldStart
    IN  IF lElbow.threw \/ rElbow.threw \/ lArm.threw \/ rArm.threw THEN Thrown(sp)
        ELSE IF ~elbowsGood
        THEN [Verdict(sp, TRUE, "ELBOW_ANGLE") EXCEPT !.wHold = Null]
        ELSE IF ~armsGood
        THEN [Verdict(sp, TRUE, "ARM_SPREAD") EXCEPT !.wHold = Null]
        ELSE IF held < W_HOLD
        THEN [Verdict(sp, FALSE, "W_COUNTDOWN") EXCEPT !.wHold = held]
        ELSE IF Exceeds(lastWSuccess, W_SUCCESS_GAP)
        THEN [Verdict(speak(sp, "SET_DONE", TRUE), FALSE, "W_DONE")
                EXCEPT !.wHold = Null, !.wSucc = 0]
        ELSE [Verdict(sp, FALSE, "W_DONE") EXCEPT !.wHold = held]

\* the TOUCH_EAR rule scoring a hand away from the ear as an error (a
\* variant that C15 rules out)
TouchEarReachIsError(lm, sp) ==
    IF ~lm[LEFT_SHOULDER].present \/ ~lm[RIGHT_SHOULDER].present THEN Thrown(sp)
    ELSE IF Abs(lm[LEFT_SHOULDER].y - lm[RIGHT_SHOULDER].y) > SHRUG_MAX
    THEN Verdict(sp, TRUE, "NO_SHRUG")
    ELSE IF \/ ~lm[LEFT_WRIST].present \/ ~lm[RIGHT_EAR].present
            \/ ~lm[RIGHT_WRIST].present \/ ~lm[LEFT_EAR].present
    THEN Thrown(sp)
    ELSE LET isTouching == \/ Dist2(lm[LEFT_WRIST], lm[RIGHT_EAR]) < NEAR * NEAR
                           \/ Dist2(lm[RIGHT_WRIST], lm[LEFT_EAR]) < NEAR * NEAR
         IN  IF isTouching THEN Verdict(sp, FALSE, "TOUCH_GOOD")
             ELSE Verdict(sp, TRUE, "TOUCH_REACH")

TouchEar(lm, sp) ==
    IF ~lm[LEFT_SHOULDER].present \/ ~lm[RIGHT_SHOULDER].present THEN Thrown(sp)
    ELSE IF Abs(lm[LEFT_SHOULDER].y - lm[RIGHT_SHOULDER].y) > SHRUG_MAX
    THEN Verdict(sp, TRUE, "NO_SHRUG")
    ELSE IF \/ ~lm[LEFT_WRIST].present \/ ~lm[RIGHT_EAR].present
            \/ ~lm[RIGHT_WRIST].present \/ ~lm[LEFT_EAR].present
    THEN Thrown(sp)
    ELSE LET isTouching == \/ Dist2(lm[LEFT_WRIST], lm[RIGHT_EAR]) < NEAR * NEAR
                           \/ Dist2(lm[RIGHT_WRIST], lm[LEFT_EAR]) < NEAR * NEAR
         IN  IF isTouching THEN Verdict(sp, FALSE, "TOUCH_GOOD")
             ELSE Verdict(sp, FALSE, "TOUCH_REACH")

\* the Bobath rule announcing a completed hold without clearing the hold
\* timer (a variant that C12 rules out)
BobathHandClaspKeepsTimer(lm, sp) ==
    LET leftArm == calculateAngle(lm[LEFT_SHOULDER], lm[LEFT_ELBOW], lm[LEFT_WRIST])
        rightArm == calculateAngle(lm[RIGHT_SHOULDER], lm[RIGHT_ELBOW], lm[RIGHT_WRIST])
        isClasped == Dist2(lm[LEFT_WRIST], lm[RIGHT_WRIST]) < NEAR * NEAR
        armsStraight == leftArm.angle > 150000 /\ rightArm.angle > 150000
        isOverhead == /\ lm[LEFT_WRIST].y < lm[NOSE].y
                      /\ lm[RIGHT_WRIST].y < lm[NOSE].y
        held == IF bobathHoldStart = Null THEN 0 ELSE bobathHoldStart
    IN  IF \/ ~lm[LEFT_WRIST].present \/ ~lm[RIGHT_WRIST].present
           \/ leftArm.threw \/ rightArm.threw \/ ~lm[NOSE].present
        THEN Thrown(sp)
        ELSE IF ~isClasped
        THEN [Verdict(sp, TRUE, "CLASP_HANDS") EXCEPT !.bHold = Null]
        ELSE IF ~armsStraight
        THEN [Verdict(sp, TRUE, "STRAIGHTEN") EXCEPT !.bHold = Null]
        ELSE IF ~isOverhead
        THEN [Verdict(sp, TRUE, "RAISE_OVERHEAD") EXCEPT !.bHold = Null]
        ELSE IF held < BOBATH_HOLD
        THEN [Verdict(sp, FALSE, "BOBATH_COUNTDOWN") EXCEPT !.bHold = held]
        ELSE IF Exceeds(lastBobathSuccess, BOBATH_SUCCESS_GAP)
        THEN [Verdict(speak(sp, "REP_DONE", TRUE), FALSE, "BOBATH_DONE")
                EXCEPT !.bHold = held, !.bSucc = 0]
        ELSE [Verdict(sp, FALSE, "BOBATH_DONE") EXCEPT !.bHold = held]

BobathHandClasp(lm, sp) ==
    LET leftArm == calculateAngle(lm[LEFT_SHOULDER], lm[LEFT_ELBOW], lm[LEFT_WRIST])
        rightArm == calculateAngle(lm[RIGHT_SHOULDER], lm[RIGHT_ELBOW], lm[RIGHT_WRIST])
        isClasped == Dist2(lm[LEFT_WRIST], lm[RIGHT_WRIST]) < NEAR * NEAR
        armsStraight == leftArm.angle > 150000 /\ rightArm.angle > 150000
        isOverhead == /\ lm[LEFT_WRIST].y < lm[NOSE].y
                      /\ lm[RIGHT_WRIST].y < lm[NOSE].y
        held == IF bobathHoldStart = Null THEN 0 ELSE bobathHoldStart
    IN  IF \/ ~lm[LEFT_WRIST].present \/ ~lm[RIGHT_WRIST].present
           \/ leftArm.threw \/ rightArm.threw \/ ~lm[NOSE].present
        THEN Thrown(sp)
        ELSE IF ~isClasped
        THEN [Verdict(sp, TRUE, "CLASP_HANDS") EXCEPT !.bHold = Null]
        ELSE IF ~armsStraight
        THEN [Verdict(sp, TRUE, "STRAIGHTEN") EXCEPT !.bHold = Null]
        ELSE IF ~isOverhead
        THEN [Verdict(sp, TRUE, "RAISE_OVERHEAD") EXCEPT !.bHold = Null]
        ELSE IF held < BOBATH_HOLD
        THEN [Verdict(sp, FALSE, "BOBATH_COUNTDOWN") EXCEPT !.bHold = held]
        ELSE IF Exceeds(lastBobathSuccess, BOBATH_SUCCESS_GAP)
        THEN [Verdict(speak(sp, "REP_DONE", TRUE), FALSE, "BOBATH_DONE")
                EXCEPT !.bHold = Null, !.bSucc = 0]
        ELSE [Verdict(sp, FALSE, "BOBATH_DONE") EXCEPT !.bHold = held]

\* the wrist rule marking the frame of a 'keep moving' prompt as an error
\* (a variant that C16 rules out)
WristRotationPromptIsError(lm, sp) ==
    LET leftWrist == lm[LEFT_WRIST]
        isClasped == Dist2(leftWrist, lm[RIGHT_WRIST]) < NEAR * NEAR
        belowNose == leftWrist.y > lm[NOSE].y
        isChestLevel == belowNose /\ leftWrist.y < lm[LEFT_HIP].y
        elapsedTime == durationSec - LoopClosure.timeLeft
        phase == (elapsedTime \div DIRECTION_PERIOD) % 2
        movement == IF lastWristPos.present
                    THEN Hypot(leftWrist.x - lastWristPos.x,
                               leftWrist.y - lastWristPos.y)
                    ELSE 0
        moved == Min(MOTION_MIN, motionAccumulator + movement)
        check == Exceeds(lastMotionCheckTime, MOTION_WINDOW)
        prompt == check /\ moved < MOTION_MIN /\ statusRef = "ACTIVE"
        sp2 == IF prompt THEN speak(sp, "ROTATE_PROMPT", FALSE) ELSE sp
    IN  IF \/ ~leftWrist.present \/ ~lm[RIGHT_WRIST].present \/ ~lm[NOSE].present
           \/ (belowNose /\ ~lm[LEFT_HIP].present)
        THEN Thrown(sp)
        ELSE IF ~isClasped THEN Verdict(sp, TRUE, "PALMS_TOGETHER")
        ELSE IF ~isChestLevel THEN Verdict(sp, TRUE, "CHEST_LEVEL")
        ELSE [Verdict(sp2, prompt, IF phase = 0 THEN "ROTATE_CW" ELSE "ROTATE_CCW")
                EXCEPT !.wristPos = Pt(leftWrist.x, leftWrist.y),
                       !.motion = IF check THEN 0 ELSE moved,
                       !.motionAge = IF check THEN 0 ELSE lastMotionCheckTime]

WristRotation(lm, sp) ==
    LET leftWrist == lm[LEFT_WRIST]
        isClasped == Dist2(leftWrist, lm[RIGHT_WRIST]) < NEAR * NEAR
        belowNose == leftWrist.y > lm[NOSE].y
        isChestLevel == belowNose /\ leftWrist.y < lm[LEFT_HIP].y
        elapsedTime == durationSec - LoopClosure.timeLeft
        phase == (elapsedTime \div DIRECTION_PERIOD) % 2
        movement == IF lastWristPos.present
                    THEN Hypot(leftWrist.x - lastWristPos.x,
                               leftWrist.y - lastWristPos.y)
                    ELSE 0
        moved == Min(MOTION_MIN, motionAccumulator + movement)
        check == Exceeds(lastMotionCheckTime, MOTION_WINDOW)
        prompt == check /\ moved < MOTION_MIN /\ statusRef = "ACTIVE"
        sp2 == IF prompt THEN speak(sp, "ROTATE_PROMPT", FALSE) ELSE sp
    IN  IF \/ ~leftWrist.present \/ ~lm[RIGHT_WRIST].present \/ ~lm[NOSE].present
           \/ (belowNose /\ ~lm[LEFT_HIP].present)
        THEN Thrown(sp)
        ELSE IF ~isClasped THEN Verdict(sp, TRUE, "PALMS_TOGETHER")
        ELSE IF ~isChestLevel THEN Verdict(sp, TRUE, "CHEST_LEVEL")
        ELSE [Verdict(sp2, FALSE, IF phase = 0 THEN "ROTATE_CW" ELSE "ROTATE_CCW")
                EXCEPT !.wristPos = Pt(leftWrist.x, leftWrist.y),
                       !.motion = IF check THEN 0 ELSE moved,
                       !.motionAge = IF check THEN 0 ELSE lastMotionCheckTime]

\* the exercise-specific branch of processLandmarks
ExerciseRule(lm, sp) ==
    IF view = "ref"
    THEN CASE exercise = "SHOULDER_ABDUCTION" -> ShoulderAbduction(lm, sp)
           [] exercise = "STANDING_W_EXTENSION" -> StandingWExtension(lm, sp)
           [] exercise = "TOUCH_EAR" -> TouchEar(lm, sp)
           [] exercise = "BOBATH_HAND_CLASP" -> BobathHandClasp(lm, sp)
           [] exercise = "WRIST_ROTATION" -> WristRotation(lm, sp)
           [] OTHER -> Verdict(sp, FALSE, "STANDARD")
    ELSE CASE exercise = "SHOULDER_ABDUCTION" -> ShoulderAbduction(lm, sp)
           [] exercise = "ELBOW_FLEXION" -> ElbowFlexion(lm, sp)
           [] OTHER -> Verdict(sp, FALSE, "STANDARD")

\* whether the torso gate of processLandmarks applies to the exercise
TorsoGated == view = "state" \/ exercise # "STANDING_W_EXTENSION"

\* processLandmarks up to its feedback logic: torso gate, then exercise rule
Classify(lm, sp) ==
    LET torso == checkTorsoAlignment(lm)
    IN  IF torso.threw THEN Thrown(sp)
        ELSE IF /\ ~torso.aligned
                /\ torso.error > TORSO_ERROR_MIN * torso.scale
                /\ TorsoGated
        THEN Verdict(sp, TRUE, "TORSO")
        ELSE ExerciseRule(lm, sp)

(***************************************************************************)
(* Session lifecycle.  Clicks are discrete events: React commits the       *)
(* render they cause before the next event.  Updates queued from timers,   *)
(* animation frames and passive effects are committed by a later render    *)
(* (Commit), and the passive effects of a commit run after it (Effects),   *)
(* at the latest before the next render.  lc is the lifecycle state the    *)
(* handlers below transform: [status, statusRef, timerOn, rendered,        *)
(* effectsPending, sp, completed].                                         *)
(***************************************************************************)
Lifecycle ==
    [status |-> status, statusRef |-> statusRef, timerOn |-> timerOn,
     rendered |-> rendered, effectsPending |-> effectsPending,
     sp |-> Speech, completed |-> completed]

SpeechOf(r) == [last |-> r.last, log |-> r.log, out |-> r.out]

\* the session summary with the duration computed from the timeLeft of the
\* first render, as the animation loop would see it (a variant that C18 rules
\* out)
SessionSinceMount(lc) ==
    [duration |-> durationSec - LoopClosure.timeLeft,
     accuracyScore |-> IF view = "ref" THEN scoreRef ELSE lc.rendered.score,
     correctionCount |->
        IF view = "ref" THEN correctionsRef ELSE lc.rendered.corrections]

\* the WorkoutSession handed to onComplete (feedbackLog is the live array
\* feedbackLog.current itself, not a copy, and is not repeated here)
Session(lc) ==
    [duration |-> durationSec - lc.rendered.timeLeft,
     accuracyScore |-> IF view = "ref" THEN scoreRef ELSE lc.rendered.score,
     correctionCount |->
        IF view = "ref" THEN correctionsRef ELSE lc.rendered.corrections]

handleFinish(lc) ==
    [lc EXCEPT !.status = "COMPLETED",
               !.sp = SpeechOf(speak(lc.sp, "FINISHED", TRUE)),
               !.completed = Append(lc.completed, Session(lc))]

\* the passive effects without the countdown effect's timeout branch (a
\* variant that C21 rules out)
RunEffectsNoTimeout(lc) ==
    IF ~lc.effectsPending THEN lc
    ELSE [lc EXCEPT !.effectsPending = FALSE,
                    !.statusRef = lc.rendered.status,
                    !.timerOn = /\ lc.rendered.status = "ACTIVE"
                                /\ lc.rendered.timeLeft > 0]

\* the passive effects with a countdown effect that keeps its interval at
\* timeLeft 0 and never finishes the session (a variant that C31 rules out)
RunEffectsKeepsCounting(lc) ==
    IF ~lc.effectsPending THEN lc
    ELSE [lc EXCEPT !.effectsPending = FALSE,
                    !.statusRef = lc.rendered.status,
                    !.timerOn = lc.rendered.status = "ACTIVE"]

\* the passive effects of the last commit: statusRef sync (deps [status]) and
\* the countdown effect (deps [status, timeLeft]) with its cleanup
RunEffects(lc) ==
    IF ~lc.effectsPending THEN lc
    ELSE LET ran == [lc EXCEPT !.effectsPending = FALSE,
                               !.statusRef = lc.rendered.status,
                               !.timerOn = /\ lc.rendered.status = "ACTIVE"
                                           /\ lc.rendered.timeLeft > 0]
         IN  IF lc.rendered.status = "ACTIVE" /\ lc.rendered.timeLeft = 0
             THEN handleFinish(ran)
             ELSE ran

\* the state a render closes over.  Only the state view's handlers read score
\* and corrections from their closure (the ref view's read the refs and its
\* copies are displayed only), so only the state view's closures carry them
Closure(st) ==
    [status |-> st, timeLeft |-> timeLeft,
     score |-> IF view = "state" THEN score ELSE INITIAL_SCORE,
     corrections |-> IF view = "state" THEN corrections ELSE 0]

\* a render and its commit; React flushes the pending passive effects first
Render(lc) ==
    LET flushed == RunEffects(lc)
    IN  [flushed EXCEPT
            !.rendered = Closure(flushed.status),
            !.effectsPending = \/ flushed.status # flushed.rendered.status
                               \/ timeLeft # flushed.rendered.timeLeft]

\* a click is a discrete event: React renders its updates synchronously and
\* runs the passive effects of that commit before the event returns
Discrete(lc) == RunEffects(Render(lc))

Apply(lc) ==
    /\ status' = lc.status
    /\ statusRef' = lc.statusRef
    /\ timerOn' = lc.timerOn
    /\ rendered' = lc.rendered
    /\ effectsPending' = lc.effectsPending
    /\ lastSpokenTime' = lc.sp.last
    /\ feedbackLog' = lc.sp.log
    /\ spoken' = lc.sp.out
    /\ completed' = lc.completed

\* an age d later, saturated at cap; a null instant stays null
Later(a, d, cap) == IF a = Null THEN Null ELSE Min(cap, a + d)

\* wall-clock steps explored: 2.5 s and 5 s
TimeSteps == {25, 50}

(***************************************************************************)
(* Initial state: the component is mounted and startSystem has finished.   *)
(***************************************************************************)
ExercisesOf(v) ==
    IF v = "ref"
    THEN {"SHOULDER_ABDUCTION", "STANDING_W_EXTENSION", "SQUAT", "TOUCH_EAR",
          "BOBATH_HAND_CLASP", "WRIST_ROTATION"}
    ELSE {"SHOULDER_ABDUCTION", "ELBOW_FLEXION", "SQUAT"}

NoFrame == [kind |-> "none", threw |-> FALSE, isError |-> FALSE, text |-> "NONE"]

\* the report service has not been called
NoCall == [fn |-> "none"]

Mounted ==
    /\ status = "IDLE"
    /\ timeLeft = durationSec
    /\ score = INITIAL_SCORE
    /\ corrections = 0
    /\ rendered = [status |-> "IDLE", timeLeft |-> durationSec,
                   score |-> INITIAL_SCORE, corrections |-> 0]
    /\ statusRef = "IDLE"
    /\ scoreRef = INITIAL_SCORE
    /\ correctionsRef = 0
    /\ feedbackLog = 0
    /\ lastSpokenTime = THROTTLE
    /\ wHoldStart = Null
    /\ lastWSuccess = W_SUCCESS_GAP + 1
    /\ bobathHoldStart = Null
    /\ lastBobathSuccess = BOBATH_SUCCESS_GAP + 1
    /\ lastWristPos = Undefined
    /\ motionAccumulator = 0
    /\ lastMotionCheckTime = MOTION_WINDOW + 1
    /\ timerOn = FALSE
    /\ effectsPending = FALSE
    /\ completed = <<>>
    /\ spoken = <<>>
    /\ frame = NoFrame
    /\ call = NoCall

Init ==
    /\ view \in {"ref", "state"}
    /\ vision \in {"v1", "v2"}
    /\ exercise \in ExercisesOf(view)
    /\ durationSec \in 1..MaxDuration
    /\ correctionCap = MaxCorrections
    /\ Mounted

(***************************************************************************)
(* Actions                                                                 *)
(***************************************************************************)
Props == <<view, vision, exercise, durationSec, correctionCap>>
Counters == <<score, corrections, scoreRef, correctionsRef>>
RuleRefs == <<wHoldStart, lastWSuccess, bobathHoldStart, lastBobathSuccess,
              lastWristPos, motionAccumulator, lastMotionCheckTime>>

\* the start button: onClick={() => { setStatus('ACTIVE'); speak("开始跟练", true); }}
StartClick ==
    /\ rendered.status = "IDLE"
    /\ \E lc \in {Discrete([Lifecycle EXCEPT
                              !.status = "ACTIVE",
                              !.sp = SpeechOf(speak(Speech, "START", TRUE))])} :
            Apply(lc)
    /\ frame' = NoFrame
    /\ UNCHANGED <<Props, call, Counters, RuleRefs, timeLeft>>

\* the finish button: onClick={handleFinish}
FinishClick ==
    /\ rendered.status = "ACTIVE"
    /\ \E lc \in {Discrete(handleFinish(Lifecycle))} : Apply(lc)
    /\ frame' = NoFrame
    /\ UNCHANGED <<Props, call, Counters, RuleRefs, timeLeft>>

\* a render or the passive effects of the last commit are due
Due == Closure(status) # rendered \/ effectsPending

\* the interval callback: setTimeLeft(p => p - 1).  The interval fires 1000 ms
\* after the effect that registered it or after its previous callback; the
\* render and the effects React schedules for an update run before that
Tick ==
    /\ timerOn
    /\ ~Due
    /\ timeLeft' = timeLeft - 1
    /\ spoken' = <<>>
    /\ frame' = NoFrame
    /\ UNCHANGED <<Props, call, Counters, RuleRefs, status, rendered, statusRef,
                   feedbackLog, lastSpokenTime, timerOn, effectsPending, completed>>

\* React renders and commits the queued state updates
Commit ==
    /\ Closure(status) # rendered
    /\ \E lc \in {Render(Lifecycle)} : Apply(lc)
    /\ frame' = NoFrame
    /\ UNCHANGED <<Props, call, Counters, RuleRefs, timeLeft>>

\* React runs the passive effects of the last commit
Effects ==
    /\ effectsPending
    /\ \E lc \in {RunEffects(Lifecycle)} : Apply(lc)
    /\ frame' = NoFrame
    /\ UNCHANGED <<Props, call, Counters, RuleRefs, timeLeft>>

\* wall-clock time passes.  The steps are seconds long; a render or effects
\* React has scheduled run within milliseconds, so none is due across a step
Advance ==
    \E d \in TimeSteps :
        /\ ~Due
        /\ lastSpokenTime' = Later(lastSpokenTime, d, THROTTLE)
        /\ wHoldStart' = Later(wHoldStart, d, W_HOLD)
        /\ lastWSuccess' = Later(lastWSuccess, d, W_SUCCESS_GAP + 1)
        /\ bobathHoldStart' = Later(bobathHoldStart, d, BOBATH_HOLD)
        /\ lastBobathSuccess' = Later(lastBobathSuccess, d, BOBATH_SUCCESS_GAP + 1)
        /\ lastMotionCheckTime' = Later(lastMotionCheckTime, d, MOTION_WINDOW + 1)
        /\ <<lastSpokenTime', wHoldStart', lastWSuccess', bobathHoldStart',
             lastBobathSuccess', lastMotionCheckTime'>>
            # <<lastSpokenTime, wHoldStart, lastWSuccess, bobathHoldStart,
                lastBobathSuccess, lastMotionCheckTime>>
        /\ spoken' = <<>>
        /\ frame' = NoFrame
        /\ UNCHANGED <<Props, call, Counters, status, timeLeft, rendered,
                       statusRef, feedbackLog, lastWristPos, motionAccumulator,
                       timerOn, effectsPending, completed>>

(***************************************************************************)
(* One animation frame: loop() and, for a detected pose, processLandmarks. *)
(***************************************************************************)
\* the series of per-frame analyses of the session (session.poseAnalyses).
\* Neither view keeps one: processLandmarks returns its verdict to loop,
\* which drops it, and handleFinish hands onComplete a session without the
\* poseAnalyses field, which the report reads as an empty series
poseAnalyses == <<>>

\* the performance metrics the report reads from a session handed to
\* onComplete: session.performanceMetrics || { avgAngle: 0, angleVariance: 0,
\* stabilityScore: 0, consistencyScore: 0 }.  handleFinish sets no
\* performanceMetrics, so the default is what every session carries
performanceMetricsOf(session) ==
    IF "performanceMetrics" \in DOMAIN session
    THEN session.performanceMetrics
    ELSE [avgAngle |-> 0, angleVariance |-> 0, stabilityScore |-> 0,
          consistencyScore |-> 0]

\* session.errorPatterns || { torsoErrors: 0, angleErrors: 0, rangeErrors: 0,
\* totalErrors: 0 }
errorPatternsOf(session) ==
    IF "errorPatterns" \in DOMAIN session
    THEN session.errorPatterns
    ELSE [torsoErrors |-> 0, angleErrors |-> 0, rangeErrors |-> 0,
          totalErrors |-> 0]

\* the counters the session summary reports, and the penalty of the view
Score == IF view = "ref" THEN scoreRef ELSE score
CorrectionCount == IF view = "ref" THEN correctionsRef ELSE corrections
Penalty == IF view = "ref" THEN REF_PENALTY ELSE STATE_PENALTY

\* what the feedback logic of the ref view attempts to say for a verdict
TriedRef(v) ==
    IF v.isError
    THEN (IF statusRef = "ACTIVE" THEN speak(v.sp, v.text, FALSE) ELSE Silent(v.sp))
    ELSE (IF statusRef = "ACTIVE" /\ HasHoldPhrase(v.text)
          THEN speak(v.sp, SpokenPart(v.text), FALSE)
          ELSE Silent(v.sp))

\* the ref view's feedback logic with the penalty not floored (a variant that C1 rules out)
FeedbackRefUnfloored(v) ==
    LET tried == TriedRef(v)
        penalize == v.isError /\ statusRef = "ACTIVE" /\ tried.ok
        c == IF penalize THEN correctionsRef + 1 ELSE correctionsRef
        sc == IF penalize THEN scoreRef - REF_PENALTY ELSE scoreRef
    IN  [sp |-> SpeechOf(tried), correctionsRef |-> c, scoreRef |-> sc,
         corrections |-> IF penalize THEN c ELSE corrections,
         score |-> IF penalize THEN sc ELSE score]

\* the ref view's feedback logic penalizing every error frame, spoken or
\* not, as the state view's does (a variant that C7 rules out)
FeedbackRefEveryFrame(v) ==
    LET tried == TriedRef(v)
        penalize == v.isError /\ statusRef = "ACTIVE"
        c == IF penalize THEN correctionsRef + 1 ELSE correctionsRef
        sc == IF penalize THEN Max(0, scoreRef - REF_PENALTY) ELSE scoreRef
    IN  [sp |-> SpeechOf(tried), correctionsRef |-> c, scoreRef |-> sc,
         corrections |-> IF penalize THEN c ELSE corrections,
         score |-> IF penalize THEN sc ELSE score]

\* the ref view's feedback logic without the statusRef gate (a variant that C6 rules out)
FeedbackRefAnyStatus(v) ==
    LET tried == IF v.isError \/ HasHoldPhrase(v.text)
                 THEN speak(v.sp, IF v.isError THEN v.text ELSE SpokenPart(v.text),
                            FALSE)
                 ELSE Silent(v.sp)
        penalize == v.isError /\ tried.ok
        c == IF penalize THEN correctionsRef + 1 ELSE correctionsRef
        sc == IF penalize THEN Max(0, scoreRef - REF_PENALTY) ELSE scoreRef
    IN  [sp |-> SpeechOf(tried), correctionsRef |-> c, scoreRef |-> sc,
         corrections |-> IF penalize THEN c ELSE corrections,
         score |-> IF penalize THEN sc ELSE score]

\* the ref view's feedback logic taking a correction back on a correct
\* frame (a variant that C8 rules out)
FeedbackRefForgiving(v) ==
    LET tried == TriedRef(v)
        penalize == v.isError /\ statusRef = "ACTIVE" /\ tried.ok
        c == IF penalize THEN correctionsRef + 1
             ELSE IF ~v.isError THEN Max(0, correctionsRef - 1)
             ELSE correctionsRef
        sc == IF penalize THEN Max(0, scoreRef - REF_PENALTY) ELSE scoreRef
    IN  [sp |-> SpeechOf(tried), correctionsRef |-> c, scoreRef |-> sc,
         corrections |-> c,
         score |-> IF penalize THEN sc ELSE score]

\* the feedback logic at the end of processLandmarks, ref view:
\* [sp, correctionsRef, scoreRef, corrections, score]
FeedbackRef(v) ==
    LET tried == TriedRef(v)
        penalize == v.isError /\ statusRef = "ACTIVE" /\ tried.ok
        c == IF penalize THEN correctionsRef + 1 ELSE correctionsRef
        sc == IF penalize THEN Max(0, scoreRef - REF_PENALTY) ELSE scoreRef
    IN  [sp |-> SpeechOf(tried), correctionsRef |-> c, scoreRef |-> sc,
         corrections |-> IF penalize THEN c ELSE corrections,
         score |-> IF penalize THEN sc ELSE score]

\* the feedback logic at the end of processLandmarks, state view
FeedbackState(v) ==
    LET penalize == v.isError /\ LoopClosure.status = "ACTIVE"
        tried == IF penalize THEN speak(v.sp, v.text, FALSE) ELSE Silent(v.sp)
    IN  [sp |-> SpeechOf(tried), correctionsRef |-> correctionsRef,
         scoreRef |-> scoreRef,
         corrections |-> IF penalize THEN corrections + 1 ELSE corrections,
         score |-> IF penalize THEN Max(0, score - STATE_PENALTY) ELSE score]

FeedbackLogic(v) == IF view = "ref" THEN FeedbackRef(v) ELSE FeedbackState(v)

\* what one frame leaves behind: the refs and counters after it and the
\* record of what it did
Outcome(fr, v, f) ==
    [frame |-> fr,
     wHold |-> v.wHold, wSucc |-> v.wSucc, bHold |-> v.bHold, bSucc |-> v.bSucc,
     wristPos |-> v.wristPos, motion |-> v.motion, motionAge |-> v.motionAge,
     sp |-> f.sp, correctionsRef |-> f.correctionsRef, scoreRef |-> f.scoreRef,
     corrections |-> f.corrections, score |-> f.score]

\* a frame that changes nothing: no detection, or processLandmarks threw
Untouched(fr) ==
    Outcome(fr, Verdict(Speech, FALSE, "NONE"),
            [sp |-> Speech, correctionsRef |-> correctionsRef, scoreRef |-> scoreRef,
             corrections |-> corrections, score |-> score])

processLandmarks(lm) ==
    LET v == Classify(lm, Speech)
    IN  IF v.threw
        THEN Untouched([kind |-> "pose", threw |-> TRUE, isError |-> FALSE,
                        text |-> "NONE"])
        ELSE Outcome([kind |-> "pose", threw |-> FALSE, isError |-> v.isError,
                      text |-> v.text],
                     v, FeedbackLogic(v))

\* loop() taking a frame without a detection for an error frame (a variant
\* that C5 rules out)
loopAbsenceAsError(res) ==
    IF res.kind = "pose"
    THEN processLandmarks(res.pose)
    ELSE LET v == Verdict(Speech, TRUE, "NO_PERSON")
         IN  Outcome([kind |-> res.kind, threw |-> FALSE, isError |-> TRUE,
                      text |-> v.text],
                     [v EXCEPT !.wHold = Null, !.bHold = Null], FeedbackLogic(v))

\* loop(): processLandmarks runs only if (results && results.landmarks.length > 0)
loop(res) ==
    IF res.kind = "pose"
    THEN processLandmarks(res.pose)
    ELSE Untouched([kind |-> res.kind, threw |-> FALSE, isError |-> FALSE,
                    text |-> "NONE"])

\* the writes of one animation frame with outcome o, seen as fr
Deliver(o, fr) ==
    /\ o.correctionsRef <= correctionCap
    /\ o.corrections <= correctionCap
    /\ o.sp.log - Max(o.correctionsRef, o.corrections) <= MaxAnnouncements
    /\ frame' = fr
    /\ wHoldStart' = o.wHold
    /\ lastWSuccess' = o.wSucc
    /\ bobathHoldStart' = o.bHold
    /\ lastBobathSuccess' = o.bSucc
    /\ lastWristPos' = o.wristPos
    /\ motionAccumulator' = o.motion
    /\ lastMotionCheckTime' = o.motionAge
    /\ lastSpokenTime' = o.sp.last
    /\ feedbackLog' = o.sp.log
    /\ spoken' = o.sp.out
    /\ correctionsRef' = o.correctionsRef
    /\ scoreRef' = o.scoreRef
    /\ corrections' = o.corrections
    /\ score' = o.score
    /\ UNCHANGED <<Props, call, status, timeLeft, rendered, statusRef, timerOn,
                   effectsPending, completed>>

Frame == \E o \in {loop(res) : res \in Results(exercise)} : Deliver(o, o.frame)

\* the same animation frame, seen together with the landmarks it was given
Observed(fr, lm) ==
    [kind |-> fr.kind, threw |-> fr.threw, isError |-> fr.isError, text |-> fr.text,
     landmarks |-> lm, torso |-> checkTorsoAlignment(lm)]

Evaluate ==
    \E res \in Results(exercise) :
        \E o \in {loop(res)} : Deliver(o, Observed(o.frame, res.pose))

Next ==
    \/ StartClick
    \/ FinishClick
    \/ Tick
    \/ Commit
    \/ Effects
    \/ Advance
    \/ Frame

Spec == Init /\ [][Next]_vars

(***************************************************************************)
(* Specifications checked.  Spec explores every variant and exercise; the  *)
(* others restrict the props drawn in Init to one family of sessions.      *)
(***************************************************************************)
\* sessions of the shoulder abduction exercise, both views, both services
InitSession == Init /\ exercise = "SHOULDER_ABDUCTION"

SpecSession == InitSession /\ [][Next]_vars

\* sessions long enough in corrections for the score to reach its floor
InitFloor ==
    /\ view \in {"ref", "state"}
    /\ vision = "v1"
    /\ exercise = "SHOULDER_ABDUCTION"
    /\ durationSec \in 1..MaxDuration
    /\ correctionCap = FloorCorrections
    /\ Mounted

SpecFloor == InitFloor /\ [][Next]_vars

\* sessions of the two hold exercises
HoldExercises == {"STANDING_W_EXTENSION", "BOBATH_HAND_CLASP"}

InitHold ==
    /\ view = "ref"
    /\ vision \in {"v1", "v2"}
    /\ exercise \in HoldExercises
    /\ durationSec \in 1..MaxDuration
    /\ correctionCap = 1
    /\ Mounted

SpecHold == InitHold /\ [][Next]_vars

\* sessions of the wrist rotation exercise that last beyond one period of
\* its instruction
InitRotation ==
    /\ view = "ref"
    /\ vision = "v1"
    /\ exercise = "WRIST_ROTATION"
    /\ durationSec = RotationSeconds
    /\ correctionCap = 0
    /\ Mounted

SpecRotation == InitRotation /\ [][Next]_vars

\* full-length sessions of the shoulder abduction exercise in which every
\* frame the evaluator classifies is correct and that run to the timeout
InitWhole ==
    /\ view \in {"ref", "state"}
    /\ vision \in {"v1", "v2"}
    /\ exercise = "SHOULDER_ABDUCTION"
    /\ durationSec = ABDUCTION_SECONDS
    /\ correctionCap = MaxCorrections
    /\ Mounted

CorrectFrame == Frame /\ ~frame'.isError

NextWhole ==
    \/ StartClick
    \/ Tick
    \/ Commit
    \/ Effects
    \/ Advance
    \/ CorrectFrame

SpecWhole == InitWhole /\ [][NextWhole]_vars

\* sessions the user neither finishes nor cancels.  The browser fires the
\* 1 s interval while it is registered, and React commits every update it
\* has queued and runs the passive effects of every commit
NextTimeout ==
    \/ StartClick
    \/ Tick
    \/ Commit
    \/ Effects
    \/ Advance
    \/ Frame

SpecTimeout ==
    /\ InitSession
    /\ [][NextTimeout]_vars
    /\ WF_vars(Tick)
    /\ WF_vars(Commit)
    /\ WF_vars(Effects)

\* the frame evaluator on its own: sessions that are started and fed frames,
\* every frame seen with its landmarks
NextEvaluator ==
    \/ StartClick
    \/ Advance
    \/ Evaluate

SpecEvaluator == Init /\ [][NextEvaluator]_vars

\* the hold timer of the exercise
HoldTimer == IF exercise = "STANDING_W_EXTENSION" THEN wHoldStart ELSE bobathHoldStart

(***************************************************************************)
(* The report service.  A text is the sentence the code chose, the         *)
(* exercise name it starts with (summaries only) and the numbers it puts   *)
(* into the sentence; the empty string is the text with no sentence.       *)
(* Scores are in half-points, as in the views; angles of the performance   *)
(* metrics are in degrees.                                                 *)
(***************************************************************************)
Text(name, sentence, args) == [name |-> name, sentence |-> sentence, args |-> args]

EmptyText == Text("", "", <<>>)

\* Math.round of a score counted in half-points
Round(h) == (h + 1) \div 2

\* generateFallbackReport of components/Dashboard.tsx.  adjustedScore and
\* actualCorrections are computed there and used nowhere, so the report does
\* not depend on them
generateFallbackReportDashboard(session, name) ==
    LET torsoErrors == errorPatternsOf(session).torsoErrors
        angleErrors == errorPatternsOf(session).angleErrors
        rangeErrors == errorPatternsOf(session).rangeErrors
        totalErrors == torsoErrors + angleErrors + rangeErrors
        stabilityScore == performanceMetricsOf(session).stabilityScore
        consistencyScore == performanceMetricsOf(session).consistencyScore
        avgAngle == performanceMetricsOf(session).avgAngle
    IN  [summary |->
            IF avgAngle < 10
            THEN Text(name, "INSUFFICIENT_MOVEMENT", <<>>)
            ELSE IF totalErrors = 0 /\ stabilityScore > 80
            THEN Text(name, "EXCELLENT", <<>>)
            ELSE IF totalErrors <= 5 /\ consistencyScore > 70
            THEN Text(name, "GOOD", <<>>)
            ELSE IF totalErrors <= 15
            THEN Text(name, "BASICALLY_CORRECT", <<>>)
            ELSE Text(name, "NEEDS_IMPROVEMENT", <<>>),
         analysis |->
            IF avgAngle < 10
            THEN Text("", "INSUFFICIENT_MOVEMENT", <<>>)
            ELSE IF torsoErrors > Max(angleErrors, rangeErrors)
            THEN Text("", "TORSO_LEAN", <<torsoErrors>>)
            ELSE IF angleErrors > rangeErrors
            THEN Text("", "ANGLE_INACCURATE", <<angleErrors>>)
            ELSE IF rangeErrors > 0
            THEN Text("", "RANGE_EXCEEDED", <<rangeErrors>>)
            ELSE IF stabilityScore < 60
            THEN Text("", "UNSTABLE", <<>>)
            ELSE Text("", "WELL_FORMED", <<>>),
         tip |->
            IF avgAngle < 10
            THEN Text("", "INSUFFICIENT_MOVEMENT", <<>>)
            ELSE IF torsoErrors > 0 \/ stabilityScore < 60
            THEN Text("", "CORE_TRAINING", <<>>)
            ELSE IF angleErrors > 0 \/ consistencyScore < 70
            THEN Text("", "SLOW_DOWN", <<>>)
            ELSE IF rangeErrors > 0
            THEN Text("", "DO_NOT_OVERSTRETCH", <<>>)
            ELSE Text("", "KEEP_GOING", <<>>)]

\* the first generateFallbackReport of services/aiService.ts
generateFallbackReportPatterns(session, name) ==
    LET torsoErrors == errorPatternsOf(session).torsoErrors
        angleErrors == errorPatternsOf(session).angleErrors
        rangeErrors == errorPatternsOf(session).rangeErrors
        stabilityScore == performanceMetricsOf(session).stabilityScore
        consistencyScore == performanceMetricsOf(session).consistencyScore
    IN  [summary |->
            IF torsoErrors = 0 /\ angleErrors = 0 /\ rangeErrors = 0
               /\ stabilityScore > 80
            THEN Text(name, "EXCELLENT", <<stabilityScore>>)
            ELSE IF consistencyScore > 70 /\ stabilityScore > 60
            THEN Text(name, "GOOD", <<stabilityScore>>)
            ELSE IF stabilityScore < 40
            THEN Text(name, "UNSTABLE", <<stabilityScore>>)
            ELSE Text(name, "NEEDS_IMPROVEMENT", <<>>),
         analysis |->
            IF torsoErrors > Max(angleErrors, rangeErrors)
            THEN Text("", "CORE_STABILITY", <<torsoErrors, stabilityScore>>)
            ELSE IF angleErrors > rangeErrors
            THEN Text("", "ANGLE_CONTROL", <<angleErrors, consistencyScore>>)
            ELSE IF rangeErrors > 0
            THEN Text("", "RANGE_OF_MOTION", <<rangeErrors>>)
            ELSE IF stabilityScore < 60
            THEN Text("", "UNSTABLE", <<stabilityScore>>)
            ELSE Text("", "WELL_FORMED", <<stabilityScore, consistencyScore>>),
         tip |->
            IF torsoErrors > 0 \/ stabilityScore < 60
            THEN Text("", "CORE_TRAINING", <<stabilityScore>>)
            ELSE IF angleErrors > 0 \/ consistencyScore < 70
            THEN Text("", "SLOW_DOWN", <<>>)
            ELSE IF rangeErrors > 0
            THEN Text("", "WARM_UP", <<>>)
            ELSE Text("", "KEEP_GOING", <<Min(100, stabilityScore + 10)>>)]

\* the second generateFallbackReport of services/aiService.ts
generateFallbackReportBands(session, name) ==
    LET points == Round(session.accuracyScore)
        count == session.correctionCount
    IN  [summary |->
            IF points >= 90 /\ count <= 3
            THEN Text(name, "EXCELLENT", <<points, count>>)
            ELSE IF points >= 75 /\ count <= 8
            THEN Text(name, "GOOD", <<points, count>>)
            ELSE IF points >= 60
            THEN Text(name, "ROOM_TO_IMPROVE", <<points, count>>)
            ELSE Text(name, "NEEDS_IMPROVEMENT", <<points, count>>),
         analysis |->
            IF count > 10
            THEN Text("", "MANY_CORRECTIONS", <<count>>)
            ELSE IF count > 5
            THEN Text("", "SOME_CORRECTIONS", <<count>>)
            ELSE IF count > 0
            THEN Text("", "FEW_CORRECTIONS", <<count>>)
            ELSE Text("", "NO_CORRECTIONS", <<>>),
         tip |->
            IF points < 70
            THEN Text("", "WATCH_DEMONSTRATION", <<>>)
            ELSE IF count > 8
            THEN Text("", "SLOW_DOWN", <<>>)
            ELSE Text("", "KEEP_GOING", <<>>)]

\* generateFallbackReport of unnamed/part_002
generateFallbackReportShort(session, name) ==
    LET points == Round(session.accuracyScore)
        count == session.correctionCount
    IN  [summary |->
            IF points >= 90 THEN Text(name, "EXCELLENT", <<>>)
            ELSE IF points >= 75 THEN Text(name, "GOOD", <<>>)
            ELSE Text(name, "KEEP_TRYING", <<>>),
         analysis |->
            IF count > 8 THEN Text("", "MANY_DEVIATIONS", <<>>)
            ELSE IF count > 3 THEN Text("", "SOME_PROBLEMS", <<>>)
            ELSE Text("", "WELL_FORMED", <<>>),
         tip |->
            IF points < 70 THEN Text("", "WATCH_DEMONSTRATION", <<>>)
            ELSE IF points < 85 THEN Text("", "WARM_UP", <<>>)
            ELSE Text("", "KEEP_GOING", <<>>)]

\* the fallback object the catch block of services/geminiService.ts builds
fallbackReport(session) ==
    [summary |-> Text("", "FINISHED", <<session.duration, Round(session.accuracyScore)>>),
     analysis |->
        IF session.correctionCount > 8 THEN Text("", "MANY_CORRECTIONS", <<>>)
        ELSE IF session.correctionCount > 3 THEN Text("", "ROOM_TO_IMPROVE", <<>>)
        ELSE Text("", "EXCELLENT", <<>>),
     tip |->
        IF session.accuracyScore < 2 * 70
        THEN Text("", "WATCH_DEMONSTRATION", <<>>)
        ELSE Text("", "KEEP_TRAINING", <<>>)]

generateFallbackReport(service, session, name) ==
    CASE service = "Dashboard" -> generateFallbackReportDashboard(session, name)
      [] service = "aiService" -> generateFallbackReportPatterns(session, name)
      [] service = "aiService2" -> generateFallbackReportBands(session, name)
      [] service = "part_002" -> generateFallbackReportShort(session, name)

\* the fields of a report
Fields == {"summary", "analysis", "tip"}

\* what an LLM endpoint does with a request: no key is configured for it, the
\* fetch fails, it answers with an HTTP error, it answers with no content,
\* with a text that holds no JSON object, with a text that holds the three
\* fields between braces and does not parse (a trailing comma), or with a
\* JSON object whose fields come in the order asked for, each of them
\* absent, the empty string or a text the LLM wrote
Answers ==
    {[kind |-> k, object |-> <<>>] :
        k \in {"not configured", "network error", "http error", "empty content",
               "malformed", "malformed with fields"}}
    \cup {[kind |-> "json", object |-> o] :
            o \in UNION {[fs -> {EmptyText, Text("", "LLM", <<>>)}] :
                            fs \in SUBSET Fields}}

\* validateReport: !!(data.summary && data.analysis && data.tip)
validateReport(data) == \A f \in Fields : f \in DOMAIN data /\ data[f] # EmptyText

\* the promise resolves to JSON.stringify(object)
Stringified(object) == [rejected |-> FALSE, parses |-> TRUE, report |-> object]

\* callGrok or callGemini, then cleanJSON, JSON.parse and validateReport all
\* pass without a throw
Validated(answer) == answer.kind = "json" /\ validateReport(answer.object)

\* the providers consulted with Gemini before Grok (a variant that C33 rules
\* out)
providersTriedGeminiFirst(grok, gemini) ==
    IF Validated(gemini) THEN <<"gemini">>
    ELSE IF Validated(grok) THEN <<"gemini", "grok">>
    ELSE <<"gemini", "grok", "fallback">>

\* the providers generateWorkoutReport of services/aiService.ts consults, in
\* call order; the last one is the one whose report it returns.  hasGrok and
\* hasGemini are the constant true
providersTried(grok, gemini) ==
    IF Validated(grok) THEN <<"grok">>
    ELSE IF Validated(gemini) THEN <<"grok", "gemini">>
    ELSE <<"grok", "gemini", "fallback">>

\* generateWorkoutReport of services/aiService.ts: Grok first, Gemini when it
\* throws, the fallback when both throw
generateWorkoutReportProxy(session, name, grok, gemini) ==
    LET tried == providersTried(grok, gemini)
        last == tried[Len(tried)]
    IN  CASE last = "grok" -> Stringified(grok.object)
          [] last = "gemini" -> Stringified(gemini.object)
          [] last = "fallback" ->
                Stringified(generateFallbackReport("aiService", session, name))

\* generateWorkoutReport of services/geminiService.ts.  A text that does not
\* parse and holds the three fields is returned as it is (return
\* jsonMatch[0]): the promise resolves to a text that JSON.parse rejects
generateWorkoutReportGemini(session, answer) ==
    CASE answer.kind = "json" -> Stringified(answer.object)
      [] answer.kind = "malformed with fields" ->
            [rejected |-> FALSE, parses |-> FALSE, report |-> <<>>]
      [] OTHER -> Stringified(fallbackReport(session))

\* generateWorkoutReport of unnamed/part_002.  An object that fails the test
\* of the required fields is thrown into the catch of the parse, whose
\* pattern finds the three field names in the text and returns the object
generateWorkoutReportDeepSeek(session, name, answer) ==
    IF /\ answer.kind = "json"
       /\ \/ validateReport(answer.object)
          \/ Fields \subseteq DOMAIN answer.object
    THEN Stringified(answer.object)
    ELSE Stringified(generateFallbackReport("part_002", session, name))

generateWorkoutReport(service, session, name, first, second) ==
    CASE service = "aiService" -> generateWorkoutReportProxy(session, name, first, second)
      [] service = "geminiService" -> generateWorkoutReportGemini(session, first)
      [] service = "part_002" -> generateWorkoutReportDeepSeek(session, name, first)

\* the sessions a view hands over, with scores and correction counts on
\* both sides of the bands the reports distinguish
PlainSessions ==
    [duration : {durationSec}, accuracyScore : {200, 179, 139, 100},
     correctionCount : {0, 4, 9, 11}]

\* sessions that carry error patterns and performance metrics as well
MeasuredSessions ==
    {[duration |-> p.duration, accuracyScore |-> p.accuracyScore,
      correctionCount |-> p.correctionCount,
      errorPatterns |-> [torsoErrors |-> t, angleErrors |-> a, rangeErrors |-> r,
                         totalErrors |-> t + a + r],
      performanceMetrics |-> [avgAngle |-> avg, angleVariance |-> 0,
                              stabilityScore |-> st, consistencyScore |-> co]] :
        p \in PlainSessions, t \in {0, 3, 16}, a \in {0, 3, 16}, r \in {0, 3, 16},
        avg \in {0, 9, 10, 90}, st \in {0, 50, 90}, co \in {0, 80}}

ViewState ==
    <<Props, Counters, RuleRefs, status, timeLeft, rendered, statusRef,
      feedbackLog, lastSpokenTime, timerOn, effectsPending, completed, spoken,
      frame>>

\* one call of generateFallbackReport, of any module that defines one
FallbackReport ==
    /\ call = NoCall
    /\ \E service \in {"Dashboard", "aiService", "aiService2", "part_002"} :
       \E session \in PlainSessions \cup MeasuredSessions :
            call' = [fn |-> "generateFallbackReport", service |-> service,
                     session |-> session,
                     report |-> generateFallbackReport(service, session, exercise)]
    /\ UNCHANGED ViewState

\* one call of generateWorkoutReport, of any module that defines one, awaited
WorkoutReport ==
    /\ call = NoCall
    /\ \E service \in {"aiService", "geminiService", "part_002"} :
       \E session \in PlainSessions :
       \E first \in Answers :
       \E second \in IF service = "aiService" THEN Answers ELSE {first} :
            call' = [fn |-> "generateWorkoutReport", service |-> service,
                     session |-> session, first |-> first, second |-> second,
                     providers |-> IF service = "aiService"
                                   THEN providersTried(first, second) ELSE <<>>,
                     result |-> generateWorkoutReport(service, session, exercise,
                                                      first, second)]
    /\ UNCHANGED ViewState

\* the retry loops of the Grok proxies: api/grok-complete.ts counts its
\* attempts from 1 to MAX_RETRIES, unnamed/part_004 its failures from 0 to
\* maxRetries
MAX_RETRIES == 3
maxRetries == 2

\* the upstream calls with retries after client errors as well (a variant
\* that C34 rules out)
RECURSIVE fetchesRetryingClientErrors(_, _, _)
fetchesRetryingClientErrors(proxy, attempt, upstream) ==
    IF attempt > (IF proxy = "grok-complete" THEN MAX_RETRIES ELSE maxRetries + 1)
    THEN <<>>
    ELSE IF upstream[attempt] # 0 /\ upstream[attempt] < 400
    THEN <<upstream[attempt]>>
    ELSE <<upstream[attempt]>>
         \o fetchesRetryingClientErrors(proxy, attempt + 1, upstream)

\* the upstream calls a handler makes from its attempt-th on, each given as
\* the status it was answered with, 0 for a fetch that threw (network error
\* or abort by the timeout); upstream[i] is what the i-th call would meet.
\* grok-complete leaves its loop on a response with ok or status < 500,
\* part_004 on any response
RECURSIVE fetches(_, _, _)
fetches(proxy, attempt, upstream) ==
    IF attempt > (IF proxy = "grok-complete" THEN MAX_RETRIES ELSE maxRetries + 1)
    THEN <<>>
    ELSE IF /\ upstream[attempt] # 0
            /\ (proxy = "grok-complete" => upstream[attempt] < 500)
    THEN <<upstream[attempt]>>
    ELSE <<upstream[attempt]>> \o fetches(proxy, attempt + 1, upstream)

\* one POST request to a proxy handler, whatever the upstream answers
handler ==
    /\ call = NoCall
    /\ \E proxy \in {"grok-complete", "part_004"} :
       \E upstream \in [1..(MAX_RETRIES + 1) -> {0, 200, 400, 429, 500, 503}] :
            call' = [fn |-> "handler", proxy |-> proxy, upstream |-> upstream,
                     fetched |-> fetches(proxy, 1, upstream)]
    /\ UNCHANGED ViewState

\* the points calculateAngle is given on its own: every point of a grid,
\* so that the three of them cover equal points, collinear points and every
\* pair of bearings the grid has
GridPoints == {Pt(px, py) : px \in 0..MaxCoordinate, py \in 0..MaxCoordinate}

\* one call of calculateAngle
CalculateAngle ==
    /\ call = NoCall
    /\ \E a \in GridPoints, b \in GridPoints, c \in GridPoints :
            call' = [fn |-> "calculateAngle", a |-> a, b |-> b, c |-> c,
                     result |-> calculateAngle(a, b, c)]
    /\ UNCHANGED ViewState

\* the service functions called on their own, once each
InitCalls ==
    /\ view = "ref"
    /\ vision \in {"v1", "v2"}
    /\ exercise \in {"SHOULDER_ABDUCTION", "SQUAT"}
    /\ durationSec = MaxDuration
    /\ correctionCap = MaxCorrections
    /\ Mounted

NextCalls ==
    \/ FallbackReport
    \/ WorkoutReport
    \/ CalculateAngle
    \/ handler

SpecCalls == InitCalls /\ [][NextCalls]_vars

(***************************************************************************)
(* The vision service as a module: its variable poseLandmarker and the     *)
(* asynchronous calls of initializeVision.  A call runs up to its first    *)
(* await in the caller's turn and resumes in a later turn when the awaited *)
(* promise settles; turns of different calls interleave freely.  The       *)
(* PoseLandmarkers created are numbered 1, 2, ... in creation order;       *)
(* call.created is how many exist and call.closed the ones close() was     *)
(* called on.                                                              *)
(***************************************************************************)
\* the module body evaluated at import: let poseLandmarker = null
visionService ==
    /\ call = NoCall
    /\ call' = [fn |-> "initializeVision", poseLandmarker |-> Null,
                at |-> [i \in 1..MaxCalls |-> "uncalled"],
                created |-> 0, closed |-> {}]
    /\ UNCHANGED ViewState

\* initializeVision() up to its first await: the test of poseLandmarker,
\* then FilesetResolver.forVisionTasks is started
initializeVision ==
    /\ call.fn = "initializeVision"
    /\ \E i \in 1..MaxCalls :
        /\ call.at[i] = "uncalled"
        /\ call' = [call EXCEPT !.at[i] = IF call.poseLandmarker # Null
                                            THEN "returned"
                                            ELSE "forVisionTasks"]
    /\ UNCHANGED ViewState

\* the promise of FilesetResolver.forVisionTasks settles: fulfilled, the call
\* starts PoseLandmarker.createFromOptions; rejected, the call throws
forVisionTasks ==
    /\ call.fn = "initializeVision"
    /\ \E i \in 1..MaxCalls, fulfilled \in BOOLEAN :
        /\ call.at[i] = "forVisionTasks"
        /\ call' = [call EXCEPT !.at[i] = IF fulfilled THEN "createFromOptions"
                                                         ELSE "threw"]
    /\ UNCHANGED ViewState

\* the promise of PoseLandmarker.createFromOptions settles: fulfilled, a new
\* PoseLandmarker exists and is assigned to poseLandmarker; rejected, the
\* call throws
createFromOptions ==
    /\ call.fn = "initializeVision"
    /\ \E i \in 1..MaxCalls, fulfilled \in BOOLEAN :
        /\ call.at[i] = "createFromOptions"
        /\ call' = IF fulfilled
                   THEN [call EXCEPT !.at[i] = "returned",
                                     !.created = call.created + 1,
                                     !.poseLandmarker = call.created + 1]
                   ELSE [call EXCEPT !.at[i] = "threw"]
    /\ UNCHANGED ViewState

\* cleanupVision(), which only the first version of the service has
cleanupVision ==
    /\ call.fn = "initializeVision"
    /\ vision = "v1"
    /\ call.poseLandmarker # Null
    /\ call' = [call EXCEPT !.closed = call.closed \cup {call.poseLandmarker},
                            !.poseLandmarker = Null]
    /\ UNCHANGED ViewState

NextVision ==
    \/ visionService
    \/ initializeVision
    \/ forVisionTasks
    \/ createFromOptions
    \/ cleanupVision

SpecVision == InitCalls /\ [][NextVision]_vars

(***************************************************************************)
(* Claims                                                                  *)
(***************************************************************************)
\* C1: the running score stays within [0, 100]: it starts at 100, is never
\* raised above 100 and a penalty never takes it below 0.
C1_ScoreInRange ==
    /\ score \in 0..INITIAL_SCORE
    /\ scoreRef \in 0..INITIAL_SCORE

\* a correction was spoken and penalized with the score already at 0
C1_PenaltyAtFloor ==
    /\ Score = 0
    /\ CorrectionCount * Penalty > INITIAL_SCORE
    /\ frame.isError
    /\ spoken # <<>>

\* C2: throttle law.  In an ACTIVE session in which a correction has been
\* spoken, an error frame processed less than 3000 ms after the last
\* emission triggers neither an emission nor a penalty, and an error frame
\* processed 3000 ms or more after it triggers both.
C2_ThrottleLaw ==
    [][(frame'.isError /\ status = "ACTIVE" /\ CorrectionCount > 0) =>
        IF lastSpokenTime < THROTTLE
        THEN /\ spoken' = <<>>
             /\ feedbackLog' = feedbackLog
             /\ CorrectionCount' = CorrectionCount
             /\ Score' = Score
        ELSE /\ spoken' # <<>>
             /\ feedbackLog' = feedbackLog + 1
             /\ CorrectionCount' = CorrectionCount + 1
             /\ Score' = Max(0, Score - Penalty)]_vars

\* an error frame 2.5 s after a spoken correction went by in silence
C2_Throttled ==
    /\ status = "ACTIVE"
    /\ frame.isError
    /\ spoken = <<>>
    /\ CorrectionCount = 1
    /\ lastSpokenTime > 0
    /\ lastSpokenTime < THROTTLE

\* C3: in a hold exercise, whenever the hold timer is running and the next
\* evaluated frame is classified as an error of any kind, the hold timer
\* is null right after that frame.
C3_HoldResetOnError ==
    [][(exercise \in HoldExercises /\ HoldTimer # Null /\ frame'.isError) =>
        HoldTimer' = Null]_vars

\* C4: onComplete is invoked at most once per session, whatever the order
\* of the finish triggers.
C4_CompletesOnce == Len(completed) <= 1

\* C5: a frame without a detection (null result or empty landmark list) is
\* never classified as an error and leaves score, correctionCount, every
\* hold timer and the speech throttle unchanged.
C5_AbsenceIsInert ==
    [][frame'.kind \in {"null", "empty"} =>
        /\ ~frame'.isError
        /\ ~frame'.threw
        /\ spoken' = <<>>
        /\ UNCHANGED <<score, corrections, scoreRef, correctionsRef, wHoldStart,
                       bobathHoldStart, lastSpokenTime, feedbackLog>>]_vars

\* an empty detection arrived while a hold was running, after a correction
C5_AbsenceDuringHold ==
    /\ frame.kind = "empty"
    /\ status = "ACTIVE"
    /\ HoldTimer # Null
    /\ HoldTimer > 0
    /\ CorrectionCount > 0
    /\ lastSpokenTime < THROTTLE

\* C6: frames processed while the session status is IDLE or COMPLETED never
\* change score or correctionCount.
C6_PenaltiesOnlyWhileActive ==
    [][(frame' # NoFrame /\ status \in {"IDLE", "COMPLETED"}) =>
        UNCHANGED <<score, corrections, scoreRef, correctionsRef>>]_vars

\* an error frame arrived after the countdown's finish, before the effect
\* that copies the COMPLETED status into statusRef
C6_FrameAfterFinish ==
    /\ status = "COMPLETED"
    /\ statusRef = "ACTIVE"
    /\ frame.isError
    /\ CorrectionCount > 0

\* C7: each emitted correction raises correctionCount by exactly 1 and
\* lowers the score by exactly 2, floored at 0; nothing else changes
\* either; hence score = max(0, 100 - 2 * correctionCount) throughout.
C7_ScoreFollowsCorrections ==
    [][/\ Score = Max(0, INITIAL_SCORE - REF_PENALTY * CorrectionCount)
       /\ Score' = Max(0, INITIAL_SCORE - REF_PENALTY * CorrectionCount')
       /\ IF frame'.isError /\ spoken' # <<>>
          THEN /\ CorrectionCount' = CorrectionCount + 1
               /\ Score' = Max(0, Score - REF_PENALTY)
          ELSE /\ CorrectionCount' = CorrectionCount
               /\ Score' = Score]_vars

\* the correction that takes the score from 2 to 0
C7_ReachesFloor ==
    /\ Score = 0
    /\ CorrectionCount * REF_PENALTY = INITIAL_SCORE
    /\ frame.isError
    /\ spoken # <<>>

\* C8: correctionCount is non-negative and no step lowers it.
C8_CorrectionsMonotone ==
    [][/\ correctionsRef' >= correctionsRef
       /\ corrections' >= corrections
       /\ correctionsRef' >= 0
       /\ corrections' >= 0]_vars

\* corrections counted during the session are still there after its finish
C8_KeptThroughFinish ==
    /\ CorrectionCount > 1
    /\ status = "COMPLETED"
    /\ Len(completed) > 0
    /\ frame.kind = "pose"
    /\ ~frame.isError
    /\ ~frame.threw

\* shoulder midpoint against hip midpoint, doubled to stay an integer
MidpointDeviation2(lm) ==
    Abs((lm[LEFT_SHOULDER].x + lm[RIGHT_SHOULDER].x)
        - (lm[LEFT_HIP].x + lm[RIGHT_HIP].x))

\* the landmarks of a frame include all four torso landmarks
TorsoSeen(lm) ==
    /\ lm[LEFT_SHOULDER].present
    /\ lm[RIGHT_SHOULDER].present
    /\ lm[LEFT_HIP].present
    /\ lm[RIGHT_HIP].present

\* C9: a detected frame is classified as a torso error exactly when the
\* deviation between shoulder midpoint and hip midpoint exceeds 0.10 and
\* the exercise is not STANDING_W_EXTENSION.
C9_TorsoErrorIffBeyondTolerance ==
    (frame.kind = "pose" /\ TorsoSeen(frame.landmarks)) =>
        ((frame.isError /\ frame.text = "TORSO")
            <=> /\ MidpointDeviation2(frame.landmarks) > 2 * TORSO_TOLERANCE
                /\ exercise # "STANDING_W_EXTENSION")

\* C10: for a detected frame with a landmark absent, processLandmarks does
\* not throw and returns isError = false, for every exercise type.
C10_MissingLandmarksAreNotErrors ==
    (frame.kind = "pose" /\ \E j \in Joints : ~frame.landmarks[j].present) =>
        (~frame.threw /\ ~frame.isError)

\* a shoulder or hip landmark that checkTorsoAlignment reads is absent
TorsoInputMissing(lm) ==
    IF vision = "v1" THEN ~TorsoSeen(lm)
    ELSE ~lm[LEFT_SHOULDER].present \/ ~lm[LEFT_HIP].present

\* C11: whenever a shoulder or hip landmark it uses is missing,
\* checkTorsoAlignment returns {aligned: true, error: 0} and does not throw.
C11_TorsoCheckToleratesAbsence ==
    (frame.kind = "pose" /\ TorsoInputMissing(frame.landmarks)) =>
        /\ ~frame.torso.threw
        /\ frame.torso.aligned
        /\ frame.torso.error = 0

\* the hold a repetition of the exercise requires, and its announcement
HoldRequired == IF exercise = "STANDING_W_EXTENSION" THEN W_HOLD ELSE BOBATH_HOLD
HoldAnnouncement == IF exercise = "STANDING_W_EXTENSION" THEN "SET_DONE" ELSE "REP_DONE"

\* C12: in a hold exercise, a frame in the correct posture announces the
\* success exactly once and clears the hold timer if the posture has been
\* held for the required duration; otherwise it announces no success and
\* the hold timer runs on, from zero if it was cleared.
C12_HoldSuccessOncePerHold ==
    [][(/\ exercise \in HoldExercises
        /\ frame'.kind = "pose" /\ ~frame'.threw /\ ~frame'.isError) =>
        IF HoldTimer # Null /\ HoldTimer >= HoldRequired
        THEN /\ spoken' = <<HoldAnnouncement>>
             /\ HoldTimer' = Null
        ELSE /\ \A i \in 1..Len(spoken') : spoken'[i] # HoldAnnouncement
             /\ HoldTimer' = IF HoldTimer = Null THEN 0 ELSE HoldTimer]_vars

\* the second repetition of a started session was announced
C12_SecondRepetition ==
    /\ exercise \in HoldExercises
    /\ status = "ACTIVE"
    /\ spoken = <<HoldAnnouncement>>
    /\ HoldTimer = Null
    /\ CorrectionCount = 0
    /\ feedbackLog = 3

\* C13: a frame processed while the session status is IDLE or COMPLETED
\* does not start, clear or complete a hold timer, emits no spoken message
\* and appends nothing to feedbackLog.
C13_HoldAndSpeechOnlyWhileActive ==
    [][(frame' # NoFrame /\ status \in {"IDLE", "COMPLETED"}) =>
        /\ spoken' = <<>>
        /\ UNCHANGED <<wHoldStart, bobathHoldStart, feedbackLog>>]_vars

\* the direction the elapsed exercise time calls for
DirectionAt(elapsed) ==
    IF (elapsed \div DIRECTION_PERIOD) % 2 = 0 THEN "ROTATE_CW" ELSE "ROTATE_CCW"

\* C14: in WRIST_ROTATION the direction instructed by a correct frame is the
\* one of the elapsed exercise time (exercise.durationSec - timeLeft of the
\* current render), alternating every 15 seconds: clockwise in [0, 15),
\* counterclockwise in [15, 30), and so on.
C14_DirectionFollowsElapsedTime ==
    (/\ exercise = "WRIST_ROTATION"
     /\ frame.kind = "pose" /\ ~frame.threw /\ ~frame.isError) =>
        frame.text = DirectionAt(durationSec - rendered.timeLeft)

\* every landmark of the frame is present
AllSeen(lm) == \A j \in Joints : lm[j].present

\* TOUCH_EAR: level shoulders and neither wrist within 0.15 of the opposite ear
ReachingForEar(lm) ==
    /\ AllSeen(lm)
    /\ Abs(lm[LEFT_SHOULDER].y - lm[RIGHT_SHOULDER].y) <= SHRUG_MAX
    /\ Dist2(lm[LEFT_WRIST], lm[RIGHT_EAR]) >= NEAR * NEAR
    /\ Dist2(lm[RIGHT_WRIST], lm[LEFT_EAR]) >= NEAR * NEAR

\* C15: in TOUCH_EAR, a frame with level shoulders and no torso error in
\* which neither wrist is within 0.15 of the opposite ear is classified
\* isError = false and changes neither score nor correctionCount.
C15_ReachingIsCoaching ==
    [][(/\ exercise = "TOUCH_EAR"
        /\ frame'.kind = "pose"
        /\ frame'.text # "TORSO"
        /\ ReachingForEar(frame'.landmarks)) =>
        /\ ~frame'.threw
        /\ ~frame'.isError
        /\ UNCHANGED <<score, corrections, scoreRef, correctionsRef>>]_vars

\* such a frame in a started session, with the throttle open for a correction
C15_ReachingWhileActive ==
    /\ exercise = "TOUCH_EAR"
    /\ statusRef = "ACTIVE"
    /\ frame.kind = "pose"
    /\ frame.text = "TOUCH_REACH"
    /\ ReachingForEar(frame.landmarks)
    /\ lastSpokenTime >= THROTTLE

\* C16: in WRIST_ROTATION, the frame on which the 'keep moving' prompt is
\* given is not classified as an error and changes neither score nor
\* correctionCount.
C16_PromptIsAdvisory ==
    [][(/\ exercise = "WRIST_ROTATION"
        /\ \E i \in 1..Len(spoken') : spoken'[i] = "ROTATE_PROMPT") =>
        /\ frame'.kind = "pose"
        /\ ~frame'.isError
        /\ UNCHANGED <<score, corrections, scoreRef, correctionsRef>>]_vars

\* the prompt was spoken in a started session
C16_Prompted ==
    /\ exercise = "WRIST_ROTATION"
    /\ status = "ACTIVE"
    /\ spoken = <<"ROTATE_PROMPT">>
    /\ frame.kind = "pose"
    /\ motionAccumulator = 0
    /\ lastMotionCheckTime = 0

\* the hip-shoulder-elbow angle of the left arm, in millidegrees
AbductionAngle(lm) == AngleOf(lm[LEFT_HIP], lm[LEFT_SHOULDER], lm[LEFT_ELBOW])

\* C17: for SHOULDER_ABDUCTION with no torso error, a frame is an error
\* exactly when the hip-shoulder-elbow angle is below 70 or above 115
\* degrees, with the 'raise the arm' text below and the 'lower the arm'
\* text above.
C17_AbductionRange ==
    (/\ exercise = "SHOULDER_ABDUCTION"
     /\ frame.kind = "pose"
     /\ AllSeen(frame.landmarks)
     /\ frame.text # "TORSO") =>
        /\ ~frame.threw
        /\ frame.isError <=> (\/ AbductionAngle(frame.landmarks) < 70000
                              \/ AbductionAngle(frame.landmarks) > 115000)
        /\ AbductionAngle(frame.landmarks) < 70000 => frame.text = "RAISE_ARM"
        /\ AbductionAngle(frame.landmarks) > 115000 => frame.text = "LOWER_ARM"

\* a frame just inside the lower threshold (71.565 degrees) passed as correct
C17_JustInside ==
    /\ exercise = "SHOULDER_ABDUCTION"
    /\ frame.kind = "pose"
    /\ AllSeen(frame.landmarks)
    /\ AbductionAngle(frame.landmarks) = 71565
    /\ ~frame.isError
    /\ frame.text = "STANDARD"

\* C18: a SHOULDER_ABDUCTION session of 60 s that is started, in which
\* every evaluated frame is classified correct and that runs to the
\* timeout, hands onComplete a session with accuracyScore = 100,
\* correctionCount = 0 and duration = 60.
C18_PerfectSession ==
    \A i \in 1..Len(completed) :
        /\ completed[i].accuracyScore = INITIAL_SCORE
        /\ completed[i].correctionCount = 0
        /\ completed[i].duration = ABDUCTION_SECONDS

\* the session ran out and was handed over, and frames keep arriving
C18_TimedOut ==
    /\ Len(completed) = 1
    /\ status = "COMPLETED"
    /\ timeLeft = 0
    /\ frame.kind = "pose"
    /\ frame.text = "STANDARD"

\* how many times text is in the texts handed to speechSynthesis
Count(texts, text) == Cardinality({i \in 1..Len(texts) : texts[i] = text})

\* C19: a forced announcement bypasses the throttle: the session-start
\* announcement is emitted whenever a session starts and the session-end
\* announcement whenever a session finishes, however recently another
\* message was spoken.
C19_ForcedAnnouncementsAreEmitted ==
    [][/\ (status = "IDLE" /\ status' # "IDLE") => Count(spoken', "START") = 1
       /\ Count(spoken', "FINISHED") = Len(completed') - Len(completed)]_vars

\* C20: the status only moves IDLE -> ACTIVE -> COMPLETED, and onComplete
\* is invoked only when the status is ACTIVE at the moment of finishing.
C20_SingleLifecycle ==
    [][/\ status' # status =>
            \/ (status = "IDLE" /\ status' = "ACTIVE")
            \/ (status = "ACTIVE" /\ status' = "COMPLETED")
       /\ completed' # completed =>
            /\ status = "ACTIVE"
            /\ Len(completed') = Len(completed) + 1]_vars

C22_ActiveFramesAreRecorded ==
    [][(frame'.kind = "pose" /\ ~frame'.threw) =>
        IF status = "ACTIVE"
        THEN /\ Len(poseAnalyses') = Len(poseAnalyses) + 1
             /\ SubSeq(poseAnalyses', 1, Len(poseAnalyses)) = poseAnalyses
        ELSE poseAnalyses' = poseAnalyses]_vars

\* C23: the session handed over at finish carries a consistencyScore equal
\* to the percentage of recorded frames classified correct: a session whose
\* frames were all classified correct, the last of them evaluated in ACTIVE
\* right before the finish, carries 100.
C23_ConsistencyOfCorrectSession ==
    [][(/\ frame.kind = "pose" /\ ~frame.threw /\ ~frame.isError
        /\ status = "ACTIVE"
        /\ Len(completed') > Len(completed)) =>
        performanceMetricsOf(completed'[Len(completed')]).consistencyScore = 100]_vars

\* C24: whenever generateFallbackReport is given a session whose average
\* angle is below 10 degrees, the report it returns flags insufficient
\* movement, whatever the score and the error counts of the session are
C24_SmallAverageAngleIsFlagged ==
    (/\ call.fn = "generateFallbackReport"
     /\ performanceMetricsOf(call.session).avgAngle < 10)
        => \E f \in Fields : call.report[f].sentence = "INSUFFICIENT_MOVEMENT"

\* C26: whatever the LLM endpoints do, generateWorkoutReport does not reject
\* and resolves to a string that parses to a report whose summary, analysis
\* and tip are all non-empty
C26_ReportIsAlwaysComplete ==
    call.fn = "generateWorkoutReport"
        => /\ ~call.result.rejected
           /\ call.result.parses
           /\ validateReport(call.result.report)

\* the absolute difference of the bearings of the two rays of a call
BearingDifference ==
    Abs(Atan2(call.c.y - call.b.y, call.c.x - call.b.x)
        - Atan2(call.a.y - call.b.y, call.a.x - call.b.x))

\* C27: calculateAngle returns, without a throw, the absolute difference of
\* the bearings of its two rays, replaced by 360 degrees minus itself
\* exactly when it exceeds 180 degrees, and the result lies in [0, 180]
C27_AngleWithinHalfTurn ==
    call.fn = "calculateAngle"
        => /\ ~call.result.threw
           /\ call.result.angle >= 0
           /\ call.result.angle <= 180000
           /\ call.result.angle = IF BearingDifference > 180000
                                  THEN 360000 - BearingDifference
                                  ELSE BearingDifference

C27_Folded ==
    /\ call.fn = "calculateAngle"
    /\ BearingDifference > 180000
    /\ call.result.angle < 180000

\* C28: calculateAngle(a, b, c) equals calculateAngle(c, b, a)
C28_AngleIsSymmetric ==
    call.fn = "calculateAngle"
        => call.result = calculateAngle(call.c, call.b, call.a)

C28_DistinctRays ==
    /\ call.fn = "calculateAngle"
    /\ call.a # call.c
    /\ call.result.angle \notin {0, 180000}

\* C29: in either view, an error frame processed while the session status
\* is ACTIVE and the speech throttle has run out is penalized: the
\* correction count of the view goes up by one
C29_FrameSeesCurrentStatus ==
    [][(/\ frame'.kind = "pose"
        /\ ~frame'.threw
        /\ frame'.isError
        /\ status = "ACTIVE"
        /\ lastSpokenTime >= THROTTLE)
            => CorrectionCount' = CorrectionCount + 1]_vars

\* C30: in the hold exercises the hold timer becomes non-null only on a
\* frame in which all the conditions of the exercise hold, where it starts
\* at that instant; and a correct frame during a running hold leaves the
\* start instant of the hold as it was, until the success clears it
C30_HoldStartIsStable ==
    [][(exercise \in HoldExercises) =>
        ((((HoldTimer = Null /\ HoldTimer' # Null) =>
            (/\ frame'.kind = "pose" /\ ~frame'.threw /\ ~frame'.isError
             /\ frame'.text \in {"W_COUNTDOWN", "BOBATH_COUNTDOWN"}
             /\ HoldTimer' = 0)))
         /\ ((/\ frame'.kind = "pose" /\ ~frame'.threw /\ ~frame'.isError
              /\ HoldTimer # Null /\ HoldTimer' # Null) =>
            (HoldTimer' = HoldTimer)))]_vars

\* a correct frame arrived during a running hold
C30_HoldContinued ==
    /\ exercise \in HoldExercises
    /\ frame.kind = "pose" /\ ~frame.threw /\ ~frame.isError
    /\ HoldTimer # Null
    /\ HoldTimer > 0
    /\ HoldTimer < HoldRequired

C32_NoPenaltyWithoutEmission ==
    [][(CorrectionCount' # CorrectionCount) =>
        (/\ CorrectionCount' = CorrectionCount + 1
         /\ frame'.kind = "pose" /\ frame'.isError
         /\ spoken' = <<frame'.text>>
         /\ feedbackLog' = feedbackLog + 1
         /\ CorrectionCount' <= feedbackLog')]_vars

\* a second correction was spoken and counted
C32_SecondCorrection ==
    /\ frame.kind = "pose" /\ frame.isError
    /\ spoken = <<frame.text>>
    /\ CorrectionCount = 2
    /\ feedbackLog >= 2

\* C33: generateWorkoutReport of aiService calls Grok first; it calls Gemini
\* only after the Grok attempt failed, and second; it returns the fallback
\* only after both failed; and a valid Grok report is returned without a
\* Gemini call
C33_ProvidersInOrder ==
    (call.fn = "generateWorkoutReport" /\ call.service = "aiService") =>
        /\ call.providers[1] = "grok"
        /\ (\E i \in DOMAIN call.providers : call.providers[i] = "gemini") =>
                (~Validated(call.first) /\ call.providers[2] = "gemini")
        /\ (\E i \in DOMAIN call.providers : call.providers[i] = "fallback") =>
                (/\ ~Validated(call.first) /\ ~Validated(call.second)
                 /\ call.providers = <<"grok", "gemini", "fallback">>)
        /\ Validated(call.first) =>
                (/\ call.providers = <<"grok">>
                 /\ call.result = Stringified(call.first.object))

\* Grok answered with a valid report while Gemini would have answered too
C33_GrokSufficed ==
    /\ call.fn = "generateWorkoutReport" /\ call.service = "aiService"
    /\ Validated(call.first) /\ Validated(call.second)
    /\ call.providers = <<"grok">>

\* C34: a proxy handler makes at most 3 upstream calls per POST request,
\* and every call it makes after another follows a network error, a timeout
\* or a 5xx status: a response with a status below 500 is its last call
C34_AtMostThreeUpstreamCalls ==
    call.fn = "handler" =>
        /\ Len(call.fetched) >= 1
        /\ Len(call.fetched) <= 3
        /\ \A i \in 1..(Len(call.fetched) - 1) :
                call.fetched[i] = 0 \/ call.fetched[i] >= 500

\* three calls met server errors and timeouts, and the handler gave up
\* although a fourth call would have been answered
C34_GaveUp ==
    /\ call.fn = "handler"
    /\ call.fetched = <<503, 0, 500>>
    /\ call.upstream[4] = 200

\* the PoseLandmarkers that exist and were not closed
C35_Open == (1..call.created) \ call.closed

\* C35: however the calls of initializeVision overlap, at most one
\* PoseLandmarker exists unclosed at any time, and it is the one the module
\* keeps in poseLandmarker until cleanupVision
C35_AtMostOneLandmarker ==
    call.fn = "initializeVision"
        => /\ Cardinality(C35_Open) <= 1
           /\ \A l \in C35_Open : call.poseLandmarker = l

====
